---- MODULE Spec2Model ----
(***************************************************************************)
(* A model of the MUD telnet engine of mudtelnet: the frame parser         *)
(* (mudtelnet/parser.py), the output canonicalisation (aiomudtelnet/       *)
(* utils.py), the option handlers (aiomudtelnet/options.py) and the        *)
(* protocol engine (aiomudtelnet/__init__.py).                             *)
(*                                                                         *)
(* Bytes and characters are naturals; byte strings and texts are           *)
(* sequences of naturals.                                                  *)
(***************************************************************************)
EXTENDS Integers, Sequences, FiniteSets, TLC

(***************************************************************************)
(* TelnetCode                                                              *)
(***************************************************************************)
LF == 10
CR == 13
SGA == 3
MTTS == 24
TELOPT_EOR == 25
NAWS == 31
LINEMODE == 34
CHARSET == 42
MSSP == 70
MCCP2 == 86
MCCP3 == 87
GMCP == 201
SE == 240
NOP == 241
SB == 250
WILL == 251
WONT == 252
DO == 253
DONT == 254
IAC == 255

(***************************************************************************)
(* Bounds of the model                                                     *)
(***************************************************************************)
\* longest raw byte buffer handed to the parser
MaxLen == 5
\* longest payload of a frame that is serialized and parsed back
MaxPayload == 2
\* longest text handed to send_text
MaxText == 3
\* longest continuation tried to complete an unparsed remainder
MaxCont == 3

(***************************************************************************)
(* Sequence helpers                                                        *)
(***************************************************************************)
Drop(s, n) == SubSeq(s, n + 1, Len(s))

Take(s, n) == SubSeq(s, 1, n)

SeqsUpTo(S, n) == UNION {[1..k -> S] : k \in 0..n}

RECURSIVE Flatten(_)
Flatten(ss) == IF ss = <<>> THEN <<>> ELSE Head(ss) \o Flatten(Tail(ss))

(***************************************************************************)
(* Telnet messages.  Every message is a record of the same shape; the      *)
(* fields a kind does not have are 0 / <<>>.                               *)
(***************************************************************************)
None == [kind |-> "None", command |-> 0, option |-> 0, data |-> <<>>]

TelnetData(d) == [kind |-> "Data", command |-> 0, option |-> 0, data |-> d]

TelnetCommand(c) == [kind |-> "Command", command |-> c, option |-> 0, data |-> <<>>]

TelnetNegotiate(c, o) == [kind |-> "Negotiate", command |-> c, option |-> o, data |-> <<>>]

TelnetSubNegotiate(o, d) == [kind |-> "SubNegotiate", command |-> 0, option |-> o, data |-> d]

\* bytes(message): the __bytes__ method of each message class
Bytes(m) ==
    CASE m.kind = "Data" -> m.data
      [] m.kind = "Command" -> <<IAC, m.command>>
      [] m.kind = "Negotiate" -> <<IAC, m.command, m.option>>
      [] m.kind = "SubNegotiate" -> <<IAC, SB, m.option>> \o m.data \o <<IAC, SE>>

(***************************************************************************)
(* The frame parser.  Indices i are 0-based as in the source; data[i] of   *)
(* the source is data[i + 1] here.                                         *)
(***************************************************************************)
RECURSIVE ScanIacFrom(_, _)
ScanIacFrom(data, i) ==
    IF i >= Len(data) THEN Len(data)
    ELSE IF data[i + 1] = IAC THEN i
    ELSE ScanIacFrom(data, i + 1)

_scan_until_iac(data) == ScanIacFrom(data, 0)

RECURSIVE ScanIacSeFrom(_, _)
ScanIacSeFrom(data, i) ==
    IF ~(i < Len(data) - 1) THEN -1
    ELSE IF data[i + 1] = IAC
         THEN IF data[i + 2] = SE THEN i + 2
              ELSE IF data[i + 2] = IAC THEN ScanIacSeFrom(data, i + 2)
              ELSE ScanIacSeFrom(data, i + 1)
    ELSE ScanIacSeFrom(data, i + 1)

_scan_until_iac_se(data) == ScanIacSeFrom(data, 0)

ParseSubNegotiate(data) ==
    LET length == _scan_until_iac_se(data)
    IN  IF length < 5
        THEN [consumed |-> 0, message |-> None]
        ELSE [consumed |-> length,
              message |-> TelnetSubNegotiate(data[3], SubSeq(data, 4, length - 2))]

ParseEager(data) ==
    IF Len(data) < 1 THEN [consumed |-> 0, message |-> None]
    ELSE IF data[1] = IAC
    THEN IF Len(data) < 2 THEN [consumed |-> 0, message |-> None]
         ELSE IF data[2] = IAC
              THEN [consumed |-> 2, message |-> TelnetData(Take(data, 1))]
         ELSE IF data[2] \in {WILL, WONT, DO, DONT} /\ Len(data) >= 3
              THEN [consumed |-> 3, message |-> TelnetNegotiate(data[2], data[3])]
         ELSE IF data[2] = SB THEN ParseSubNegotiate(data)
         ELSE [consumed |-> 2, message |-> TelnetCommand(data[2])]
    ELSE LET length == _scan_until_iac(data)
         IN  [consumed |-> length, message |-> TelnetData(Take(data, length))]

parse_telnet(data) ==
    IF Len(data) < 1 THEN [consumed |-> 0, message |-> None]
    ELSE IF data[1] = IAC
    THEN IF Len(data) < 2 THEN [consumed |-> 0, message |-> None]
         ELSE IF data[2] = IAC
              THEN [consumed |-> 2, message |-> TelnetData(Take(data, 1))]
         ELSE IF data[2] \in {WILL, WONT, DO, DONT}
              THEN IF Len(data) < 3 THEN [consumed |-> 0, message |-> None]
                   ELSE [consumed |-> 3, message |-> TelnetNegotiate(data[2], data[3])]
         ELSE IF data[2] = SB THEN ParseSubNegotiate(data)
         ELSE [consumed |-> 2, message |-> TelnetCommand(data[2])]
    ELSE LET length == _scan_until_iac(data)
         IN  [consumed |-> length, message |-> TelnetData(Take(data, length))]

(***************************************************************************)
(* Output canonicalisation                                                 *)
(***************************************************************************)
\* the loop of ensure_crlf from character i (1-based) on
RECURSIVE EnsureCrlfFrom(_, _, _)
EnsureCrlfFrom(input_str, i, prev_char_is_cr) ==
    IF i > Len(input_str) THEN <<>>
    ELSE LET c == input_str[i]
         IN  IF c = CR
             THEN (IF ~prev_char_is_cr THEN <<CR>> ELSE <<>>)
                  \o EnsureCrlfFrom(input_str, i + 1, TRUE)
             ELSE IF c = LF
             THEN (IF ~prev_char_is_cr THEN <<CR>> ELSE <<>>) \o <<LF>>
                  \o EnsureCrlfFrom(input_str, i + 1, FALSE)
             ELSE IF c = IAC
             THEN <<c, c>> \o EnsureCrlfFrom(input_str, i + 1, FALSE)
             ELSE <<c>> \o EnsureCrlfFrom(input_str, i + 1, FALSE)

\* an ensure_crlf that keeps every CR of its input
EnsureCrlfKeepCr(input_str) ==
    Flatten([i \in 1..Len(input_str) |->
        IF input_str[i] = LF /\ (i = 1 \/ input_str[i - 1] # CR) THEN <<CR, LF>>
        ELSE IF input_str[i] = IAC THEN <<IAC, IAC>>
        ELSE <<input_str[i]>>])

ensure_crlf(input_str) == EnsureCrlfFrom(input_str, 1, FALSE)

\* str.encode(): the UTF-8 bytes of one character (code points below 65536)
EncodeChar(c) ==
    IF c < 128 THEN <<c>>
    ELSE IF c < 2048 THEN <<192 + (c \div 64), 128 + (c % 64)>>
    ELSE <<224 + (c \div 4096), 128 + ((c \div 64) % 64), 128 + (c % 64)>>

RECURSIVE Encode(_)
Encode(text) == IF text = <<>> THEN <<>> ELSE EncodeChar(Head(text)) \o Encode(Tail(text))

\* send_text without the ensure_crlf call
SendTextUnescaped(text) == TelnetData(Encode(text))

\* the message send_text(text) puts on the outbound queue
SendTextMessage(text) == TelnetData(Encode(ensure_crlf(text)))

(***************************************************************************)
(* MudClientCapabilities.  Texts are sequences of character codes.         *)
(***************************************************************************)
TextUnknown == <<85, 78, 75, 78, 79, 87, 78>>

TextAscii == <<97, 115, 99, 105, 105>>

TextUtf8 == <<117, 116, 102, 45, 56>>

MudClientCapabilities ==
    [client_name |-> TextUnknown, client_version |-> TextUnknown,
     encoding |-> TextAscii, color |-> 0, width |-> 78, height |-> 24,
     mccp2 |-> FALSE, mccp2_enabled |-> FALSE, mccp3 |-> FALSE,
     mccp3_enabled |-> FALSE, gmcp |-> FALSE, msdp |-> FALSE, mssp |-> FALSE,
     mslp |-> FALSE, mtts |-> FALSE, naws |-> FALSE, sga |-> FALSE,
     linemode |-> FALSE, force_endline |-> FALSE, screen_reader |-> FALSE,
     mouse_tracking |-> FALSE, vt100 |-> FALSE, osc_color_palette |-> FALSE,
     proxy |-> FALSE, mnes |-> FALSE, tls_support |-> FALSE]

(***************************************************************************)
(* Option handler classes: code and capability flags                       *)
(***************************************************************************)
ALL_OPTIONS == <<SGA, NAWS, CHARSET, MTTS, MSSP, MCCP2, MCCP3, GMCP, LINEMODE, TELOPT_EOR>>

support_local(o) == o \in {SGA, CHARSET, MSSP, MCCP2, MCCP3, GMCP, LINEMODE}

support_remote(o) == o \in {NAWS, CHARSET, MTTS}

start_local(o) == o \in {SGA, CHARSET, MSSP, MCCP2, MCCP3, GMCP, LINEMODE}

start_remote(o) == o \in {NAWS, CHARSET, MTTS}

TelnetOptionState == [enabled |-> FALSE, negotiating |-> FALSE]

TelnetOptionPerspective == [local |-> TelnetOptionState, remote |-> TelnetOptionState]

\* A handler object after __init__.  negotiation is the asyncio.Event;
\* set_calls counts the calls of negotiation.set() (history, saturating).
\* enabled is CHARSETOption.enabled, number_requests and last_received are
\* MTTSOption's, compressor is MCCP2Option's (-1: None, else the number of
\* chunks compressed so far), decompressor is MCCP3Option's (NoInflater:
\* None, else the state of the zlib object).
NoInflater == [mode |-> "none", held |-> <<>>]

TelnetOption ==
    [status |-> TelnetOptionPerspective, negotiation |-> FALSE, set_calls |-> 0,
     enabled |-> "None", number_requests |-> 0, last_received |-> <<>>,
     compressor |-> -1, decompressor |-> NoInflater]

Range(s) == {s[i] : i \in 1..Len(s)}

\* MudTelnetProtocol after __init__(capabilities, supported_options) with the
\* host's callbacks registered
MudTelnetProtocol(supported_options, callbacks) ==
    [capabilities |-> MudClientCapabilities,
     supported_options |-> supported_options,
     callbacks |-> callbacks,
     tn_in_buffer |-> <<>>,
     tn_out_queue |-> <<>>,
     tn_app_data |-> <<>>,
     tn_options |-> [o \in Range(supported_options) |-> TelnetOption],
     out_transformers |-> <<>>,
     in_transformers |-> <<>>,
     tn_read_buffer |-> <<>>]

(***************************************************************************)
(* Text helpers (str methods used by the handlers)                         *)
(***************************************************************************)
Min(a, b) == IF a < b THEN a ELSE b

Max(a, b) == IF a > b THEN a ELSE b

StartsWith(s, prefix) == Len(s) >= Len(prefix) /\ Take(s, Len(prefix)) = prefix

EndsWith(s, suffix) == Len(s) >= Len(suffix) /\ Drop(s, Len(s) - Len(suffix)) = suffix

\* str.upper() on ASCII letters
Upper(s) == [i \in 1..Len(s) |-> IF s[i] >= 97 /\ s[i] <= 122 THEN s[i] - 32 ELSE s[i]]

\* index (1-based) of the first occurrence of c in s, 0 when absent
RECURSIVE FindFrom(_, _, _)
FindFrom(s, c, i) ==
    IF i > Len(s) THEN 0 ELSE IF s[i] = c THEN i ELSE FindFrom(s, c, i + 1)

Find(s, c) == FindFrom(s, c, 1)

\* s.split(c, 1) when c occurs in s
SplitFirst(s, c) == <<Take(s, Find(s, c) - 1), Drop(s, Find(s, c))>>

\* bytes.rstrip(b"\r\n")
RECURSIVE RStripCrLf(_)
RStripCrLf(s) ==
    IF s # <<>> /\ s[Len(s)] \in {CR, LF} THEN RStripCrLf(Take(s, Len(s) - 1)) ELSE s

IsCont(b) == b >= 128 /\ b <= 191

\* length of the well-formed UTF-8 sequence at the head of s (0: none);
\* sequences of one to three bytes
Utf8Width(s) ==
    IF s[1] < 128 THEN 1
    ELSE IF s[1] >= 194 /\ s[1] <= 223 /\ Len(s) >= 2 /\ IsCont(s[2]) THEN 2
    ELSE IF s[1] >= 224 /\ s[1] <= 239 /\ Len(s) >= 3 /\ IsCont(s[2]) /\ IsCont(s[3])
            /\ (s[1] = 224 => s[2] >= 160) /\ (s[1] = 237 => s[2] <= 159) THEN 3
    ELSE 0

Utf8Char(s, w) ==
    IF w = 1 THEN s[1]
    ELSE IF w = 2 THEN (s[1] - 192) * 64 + (s[2] - 128)
    ELSE (s[1] - 224) * 4096 + (s[2] - 128) * 64 + (s[3] - 128)

\* bytes.decode(): ok is FALSE where the source raises UnicodeDecodeError
\* (the value of the recursive call is bound once, by a singleton set)
RECURSIVE Decode(_)
Decode(s) ==
    IF s = <<>> THEN [ok |-> TRUE, text |-> <<>>]
    ELSE LET w == Utf8Width(s)
         IN  IF w = 0 THEN [ok |-> FALSE, text |-> <<>>]
             ELSE CHOOSE decoded \in
                      {[ok |-> rest.ok, text |-> <<Utf8Char(s, w)>> \o rest.text] :
                         rest \in {Decode(tail) : tail \in {Drop(s, w)}}} : TRUE

\* bytes.decode(errors="ignore"): undecodable bytes are skipped
RECURSIVE DecodeIgnore(_)
DecodeIgnore(s) ==
    IF s = <<>> THEN <<>>
    ELSE LET w == Utf8Width(s)
         IN  CHOOSE decoded \in
                 {(IF w = 0 THEN <<>> ELSE <<Utf8Char(s, w)>>) \o DecodeIgnore(tail) :
                    tail \in {Drop(s, Max(w, 1))}} : TRUE

IsDigit(ch) == ch >= 48 /\ ch <= 57

RECURSIVE DigitsValue(_)
DigitsValue(s) == IF s = <<>> THEN 0 ELSE DigitsValue(Take(s, Len(s) - 1)) * 10 + (s[Len(s)] - 48)

\* int(num) for an unsigned decimal literal; ok is FALSE where int() raises
\* ValueError, as it does for a literal of more than 4300 digits
ParseInt(num) ==
    IF num # <<>> /\ Len(num) <= 4300 /\ \A i \in 1..Len(num) : IsDigit(num[i])
    THEN [ok |-> TRUE, value |-> DigitsValue(num)]
    ELSE [ok |-> FALSE, value |-> 0]

\* the bit of weight bitval is set in number
BitSet(number, bitval) == (number \div bitval) % 2 = 1

(***************************************************************************)
(* Execution contexts.  A handler runs on a context c: c.p is the protocol *)
(* object, c.raised says that an exception is propagating (what follows in *)
(* the handler is then skipped), c.fired lists the host callbacks invoked, *)
(* c.asked lists the items of the change maps passed to                    *)
(* change_capabilities, and c.fail is the number of the host callback that *)
(* raises in this run (0: none raises).                                    *)
(*                                                                         *)
(* A host callback is a coroutine: the handler that awaits it is suspended *)
(* until it returns, and other tasks run on the engine meanwhile.  The     *)
(* callbacks of a run are numbered in the order they are awaited.  c.park  *)
(* is the number of the callback at which this run is suspended (0: at     *)
(* none); c.parked says that this callback has been reached, what follows  *)
(* in the handler being skipped, and c.p is then the engine as the other   *)
(* tasks find it.  A suspended handler is carried on by running it again   *)
(* from where it began: c.at lists the callbacks at which it was suspended *)
(* before and c.lives the engine as it was found each time the callback    *)
(* returned, which takes the place of c.p at that callback.                *)
(***************************************************************************)
\* how many negotiation.set() calls the history counter tells apart
MaxSetCalls == 3
\* MTTSOption.number_requests is counted up to this value; the handler only
\* tells 1, 2 and 3 from the rest
MaxRequests == 4

\* callbacks of one handler run, by number, that are let suspend the run or
\* raise; no handler of the runs awaits more
MaxPark == 3

Context(p, fail) ==
    [p |-> p, fail |-> fail, raised |-> FALSE, fired |-> <<>>, asked |-> <<>>,
     park |-> 0, parked |-> FALSE, at |-> <<>>, lives |-> <<>>]

\* the context of a run that was suspended at the callbacks `at`, found the
\* engines `lives` when they returned, and is suspended next at callback park
Resumed(p, fail, park, at, lives) ==
    [Context(p, fail) EXCEPT !.park = park, !.at = at, !.lives = lives]

Raise(c) == [c EXCEPT !.raised = TRUE]

\* await cb(*args) for the callback registered under name, if any
\* The callback either suspends the run here, or returns or raises at once,
\* or is one at which the run was suspended before: the run goes on with the
\* engine found when it returned, unless the callback raises then.
Callback(c, name, args) ==
    IF c.raised \/ name \notin c.p.callbacks THEN c
    ELSE LET n == Len(c.fired) + 1
             c1 == [c EXCEPT !.fired = Append(@, [name |-> name, args |-> args])]
             back == {i \in 1..Len(c.at) : c.at[i] = n}
         IN  IF n = c.park THEN [c1 EXCEPT !.parked = TRUE, !.raised = TRUE]
             ELSE IF back # {}
             THEN LET i == CHOOSE j \in back : TRUE
                  IN  [c1 EXCEPT !.p = c.lives[i], !.raised = c.fail = n]
             ELSE [c1 EXCEPT !.raised = c.fail = n]

\* await self._tn_out_queue.put(msg)
QueuePut(c, msg) ==
    IF c.raised THEN c ELSE [c EXCEPT !.p.tn_out_queue = Append(@, msg)]

\* the loop of change_capabilities over the items of the dict
RECURSIVE ChangeItems(_, _)
ChangeItems(c, changes) ==
    IF c.raised \/ changes = <<>> THEN c
    ELSE LET key == Head(changes)[1]
             value == Head(changes)[2]
         IN  \* setattr of a name that is no slot of the dataclass raises
             \* AttributeError
             IF key \notin DOMAIN MudClientCapabilities THEN Raise(c)
             ELSE ChangeItems(
                      Callback([c EXCEPT !.p.capabilities[key] = value],
                               "change_capabilities", <<key, value>>),
                      Tail(changes))

\* changes is the dict as the sequence of its (key, value) items
change_capabilities(c, changes) ==
    IF c.raised THEN c ELSE ChangeItems([c EXCEPT !.asked = @ \o changes], changes)

(***************************************************************************)
(* TelnetOption and its subclasses; o is the handler's option code         *)
(***************************************************************************)
send_subnegotiate(c, o, data) == QueuePut(c, TelnetSubNegotiate(o, data))

send_negotiate(c, o, command) == QueuePut(c, TelnetNegotiate(command, o))

\* self.negotiation.set()
NegotiationSet(c, o) ==
    IF c.raised THEN c
    ELSE [c EXCEPT !.p.tn_options[o].negotiation = TRUE,
                   !.p.tn_options[o].set_calls = Min(@ + 1, MaxSetCalls)]

SetNegotiating(c, o, side) ==
    IF c.raised THEN c
    ELSE [c EXCEPT !.p.tn_options[o].status[side].negotiating = TRUE]

\* a start() of a handler that sends its offers without marking them
OptionStartUnmarked(c, o) ==
    LET c1 == IF start_local(o) THEN send_negotiate(c, o, WILL) ELSE c
    IN  IF start_remote(o) THEN send_negotiate(c1, o, DO) ELSE c1

OptionStart(c, o) ==
    LET c1 == IF start_local(o)
              THEN SetNegotiating(send_negotiate(c, o, WILL), o, "local") ELSE c
    IN  IF start_remote(o)
        THEN SetNegotiating(send_negotiate(c1, o, DO), o, "remote") ELSE c1

request_charset(c) == send_subnegotiate(c, CHARSET, <<1>> \o <<32, 97, 115, 99, 105, 105, 32, 117, 116, 102, 45, 56>>)

CharsetEnableAlways(c, side) ==
    IF c.raised THEN c
    ELSE request_charset([c EXCEPT !.p.tn_options[CHARSET].enabled = side])

CharsetEnable(c, side) ==
    IF c.raised THEN c
    ELSE IF c.p.tn_options[CHARSET].enabled = "None"
    THEN request_charset([c EXCEPT !.p.tn_options[CHARSET].enabled = side])
    ELSE c

\* MTTSOption.request
request(c) ==
    IF c.raised THEN c
    ELSE send_subnegotiate(
             [c EXCEPT !.p.tn_options[MTTS].number_requests = Min(@ + 1, MaxRequests)],
             MTTS, <<1>>)

\* a reject hook that does nothing, like the disable hooks
RejectSilently(c, o) == c

at_local_reject(c, o) == NegotiationSet(c, o)

at_remote_reject(c, o) == NegotiationSet(c, o)

\* a disable hook that clears the completion signal
DisableClearsSignal(c, o) == [c EXCEPT !.p.tn_options[o].negotiation = FALSE]

at_local_disable(c, o) == c

at_remote_disable(c, o) == c

at_local_enable(c, o) ==
    CASE o = CHARSET -> CharsetEnable(c, "local")
      [] o = MSSP -> change_capabilities(NegotiationSet(c, o), << <<"mssp", TRUE>> >>)
      [] o = MCCP2 ->
            send_subnegotiate(
                NegotiationSet(change_capabilities(c, << <<"mccp2", TRUE>> >>), o), o, <<>>)
      [] o = MCCP3 -> NegotiationSet(change_capabilities(c, << <<"mccp3", TRUE>> >>), o)
      [] OTHER -> NegotiationSet(c, o)

at_remote_enable(c, o) ==
    CASE o = NAWS -> NegotiationSet(change_capabilities(c, << <<"naws", TRUE>> >>), o)
      [] o = CHARSET -> CharsetEnable(c, "remote")
      [] o = MTTS -> request(change_capabilities(c, << <<"mtts", TRUE>> >>))
      [] OTHER -> NegotiationSet(c, o)

\* a WILL handling that replies DO whether or not the offer was its own
ReceiveWillReplying(c, o) ==
    IF support_remote(o)
    THEN LET state == c.p.tn_options[o].status.remote
             c1 == [c EXCEPT !.p.tn_options[o].status.remote.enabled = TRUE]
         IN  IF ~state.enabled
             THEN at_remote_enable(send_negotiate(c1, o, DO), o)
             ELSE c
    ELSE send_negotiate(c, o, DONT)

ReceiveWill(c, o) ==
    IF support_remote(o)
    THEN LET state == c.p.tn_options[o].status.remote
             c1 == [c EXCEPT !.p.tn_options[o].status.remote.enabled = TRUE]
         IN  IF ~state.enabled
             THEN at_remote_enable(
                      IF ~state.negotiating THEN send_negotiate(c1, o, DO) ELSE c1, o)
             ELSE c
    ELSE send_negotiate(c, o, DONT)

ReceiveDoEchoing(c, o) ==
    IF support_local(o)
    THEN LET state == c.p.tn_options[o].status.local
             c1 == [c EXCEPT !.p.tn_options[o].status.local.enabled = TRUE]
         IN  IF ~state.enabled
             THEN at_local_enable(
                      IF ~state.negotiating THEN send_negotiate(c1, o, WILL) ELSE c1, o)
             ELSE send_negotiate(c, o, WILL)
    ELSE send_negotiate(c, o, DONT)

ReceiveDo(c, o) ==
    IF support_local(o)
    THEN LET state == c.p.tn_options[o].status.local
             c1 == [c EXCEPT !.p.tn_options[o].status.local.enabled = TRUE]
         IN  IF ~state.enabled
             THEN at_local_enable(
                      IF ~state.negotiating THEN send_negotiate(c1, o, WILL) ELSE c1, o)
             ELSE c
    ELSE send_negotiate(c, o, DONT)

ReceiveWontReplying(c, o) ==
    IF support_remote(o)
    THEN LET state == c.p.tn_options[o].status.remote
             c1 == IF state.enabled
                   THEN at_remote_disable(
                            send_negotiate(
                                [c EXCEPT !.p.tn_options[o].status.remote.enabled = FALSE],
                                o, DONT), o)
                   ELSE c
         IN  IF state.negotiating /\ ~c1.raised
             THEN at_remote_reject(
                      [c1 EXCEPT !.p.tn_options[o].status.remote.negotiating = FALSE], o)
             ELSE c1
    ELSE c

ReceiveWont(c, o) ==
    IF support_remote(o)
    THEN LET state == c.p.tn_options[o].status.remote
             c1 == IF state.enabled
                   THEN at_remote_disable(
                            [c EXCEPT !.p.tn_options[o].status.remote.enabled = FALSE], o)
                   ELSE c
         IN  IF state.negotiating /\ ~c1.raised
             THEN at_remote_reject(
                      [c1 EXCEPT !.p.tn_options[o].status.remote.negotiating = FALSE], o)
             ELSE c1
    ELSE c

ReceiveDont(c, o) ==
    IF support_local(o)
    THEN LET state == c.p.tn_options[o].status.local
             c1 == IF state.enabled
                   THEN at_local_disable(
                            [c EXCEPT !.p.tn_options[o].status.local.enabled = FALSE], o)
                   ELSE c
         IN  IF state.negotiating /\ ~c1.raised
             THEN at_local_reject(
                      [c1 EXCEPT !.p.tn_options[o].status.local.negotiating = FALSE], o)
             ELSE c1
    ELSE c

at_receive_negotiate(c, o, msg) ==
    CASE msg.command = WILL -> ReceiveWill(c, o)
      [] msg.command = DO -> ReceiveDo(c, o)
      [] msg.command = WONT -> ReceiveWont(c, o)
      [] msg.command = DONT -> ReceiveDont(c, o)
      [] OTHER -> c

NawsReceiveLowByteFirst(c, msg) ==
    LET data == msg.data
    IN  IF Len(data) # 4 THEN c
        ELSE change_capabilities(c, << <<"width", data[2] * 256 + data[1]>>,
                                       <<"height", data[4] * 256 + data[3]>> >>)

NawsReceiveSubnegotiate(c, msg) ==
    LET data == msg.data
    IN  IF Len(data) # 4 THEN c
        ELSE change_capabilities(c, << <<"width", data[1] * 256 + data[2]>>,
                                       <<"height", data[3] * 256 + data[4]>> >>)

CharsetReceiveSubnegotiate(c, msg) ==
    IF Len(msg.data) < 2 THEN c
    ELSE IF msg.data[1] = 2
    THEN LET encoding == Decode(Tail(msg.data))
         IN  IF ~encoding.ok THEN Raise(c)
             ELSE NegotiationSet(
                      change_capabilities(c, << <<"encoding", encoding.text>> >>), CHARSET)
    ELSE c

\* the names the first case of handle_name matches
Xterm256Clients ==
    {<<65, 84, 76, 65, 78, 84, 73, 83>>, <<67, 77, 85, 68>>,
     <<75, 73, 76, 68, 67, 76, 73, 69, 78, 84>>, <<77, 85, 68, 76, 69, 84>>,
     <<77, 85, 83, 72, 67, 76, 73, 69, 78, 84>>, <<80, 85, 84, 84, 89>>,
     <<80, 79, 84, 65, 84, 79>>, <<84, 73, 78, 89, 70, 85, 71, 85, 69>>}

TextBeip == <<66, 69, 73, 80>>

handle_name(c, data) ==
    LET has_space == Find(data, 32) # 0
        client_name == IF has_space THEN SplitFirst(data, 32)[1] ELSE data
        client_version == IF has_space THEN SplitFirst(data, 32)[2] ELSE <<>>
        max_color == IF Upper(client_name) \in Xterm256Clients THEN 2
                     ELSE IF Upper(client_name) = TextBeip THEN 3
                     ELSE 1
        out == << <<"client_name", client_name>> >>
               \o (IF client_version # <<>>
                   THEN << <<"client_version", client_version>> >> ELSE <<>>)
               \o (IF max_color # c.p.capabilities.color
                   THEN << <<"color", max_color>> >> ELSE <<>>)
    IN  change_capabilities(c, out)

TextXterm == <<88, 84, 69, 82, 77>>

TextVt100 == <<86, 84, 49, 48, 48>>

handle_ttype(c, data) ==
    LET first == IF Find(data, 45) # 0 THEN SplitFirst(data, 45)[1] ELSE data
        color == c.p.capabilities.color
        max_color1 == IF color < 2
                         /\ (EndsWith(first, <<45, 50, 53, 54, 67, 79, 76, 79, 82>>)
                             \/ (EndsWith(first, TextXterm)
                                 /\ ~EndsWith(first, <<45, 67, 79, 76, 79, 82>>)))
                      THEN 2 ELSE color
        max_color == IF Upper(first) = TextXterm THEN Max(max_color1, 2) ELSE max_color1
        out == (IF Upper(first) = TextVt100 THEN << <<"vt100", TRUE>> >> ELSE <<>>)
               \o (IF max_color # color THEN << <<"color", max_color>> >> ELSE <<>>)
    IN  IF out # <<>> THEN change_capabilities(c, out) ELSE c

\* MTTSOption.MTTS
MttsTable ==
    << <<2048, "encryption">>, <<1024, "mslp">>, <<512, "mnes">>, <<256, "truecolor">>,
       <<128, "proxy">>, <<64, "screenreader">>, <<32, "osc_color_palette">>,
       <<16, "mouse_tracking">>, <<8, "xterm256">>, <<4, "utf8">>, <<2, "vt100">>,
       <<1, "ansi">> >>

RECURSIVE OrdersOf(_)
OrdersOf(S) ==
    IF S = {} THEN {<<>>}
    ELSE UNION {{<<x>> \o perm : perm \in OrdersOf(S \ {x})} : x \in S}

\* The loop of handle_standard over the set `supported`, taken in the order
\* `names`: the dict `out` it builds, and the colour it reaches.
RECURSIVE StandardOut(_, _)
StandardOut(names, out) ==
    IF names = <<>> THEN out
    ELSE LET name == Head(names)
             present == \E i \in 1..Len(out) : out[i][1] = "encoding"
         IN  StandardOut(Tail(names),
                 IF name \in {"encryption", "mslp", "mnes", "proxy", "vt100",
                              "screenreader", "osc_color_palette", "mouse_tracking"}
                 THEN Append(out, <<name, TRUE>>)
                 ELSE IF name = "utf8" /\ ~present
                 THEN Append(out, <<"encoding", TextUtf8>>)
                 ELSE out)

StandardColor(supported, color) ==
    Max(color, IF "truecolor" \in supported THEN 3
               ELSE IF "xterm256" \in supported THEN 2
               ELSE IF "ansi" \in supported THEN 1 ELSE 0)

\* handle_standard iterates a Python set of strings, whose order the build
\* does not fix: the result is the set of contexts over all orders.
handle_standard(c, data) ==
    IF ~StartsWith(data, <<77, 84, 84, 83, 32>>) THEN {c}
    ELSE LET number == ParseInt(SplitFirst(data, 32)[2])
         IN  IF ~number.ok THEN {c}
             ELSE LET supported == {MttsTable[i][2] : i \in
                                      {j \in 1..Len(MttsTable) :
                                         BitSet(number.value, MttsTable[j][1])}}
                      max_color == StandardColor(supported, c.p.capabilities.color)
                      tail == IF max_color # c.p.capabilities.color
                              THEN << <<"color", max_color>> >> ELSE <<>>
                  IN  {change_capabilities(c, StandardOut(names, <<>>) \o tail) :
                         names \in OrdersOf(supported)}

MttsReceiveSubnegotiate(c, msg) ==
    LET data == msg.data
        payload == Decode(Tail(data))
        number_requests == c.p.tn_options[MTTS].number_requests
    IN  IF Len(data) = 0 THEN {c}
        ELSE IF data[1] # 0 THEN {c}
        ELSE IF ~payload.ok THEN {Raise(c)}
        ELSE IF payload.text = c.p.tn_options[MTTS].last_received
        THEN {NegotiationSet(c, MTTS)}
        ELSE CASE number_requests = 1 -> {request(handle_name(c, payload.text))}
               [] number_requests = 2 -> {request(handle_ttype(c, payload.text))}
               [] number_requests = 3 ->
                    {NegotiationSet(c1, MTTS) : c1 \in handle_standard(c, payload.text)}
               [] OTHER -> {c}

\* json_library.loads(text): the injected codec, here for the JSON texts
\* "{}", "[]" and unsigned integers (a JSON integer is 0 or begins with a
\* digit other than 0).  ok is FALSE where it raises, and error names the
\* exception: JSONDecodeError for a text that is not JSON, ValueError for an
\* integer of more than 4300 digits, which int() refuses to convert.
JsonLoads(text) ==
    IF text \in {<<123, 125>>, <<91, 93>>}
    THEN [ok |-> TRUE, value |-> text, error |-> "none"]
    ELSE IF /\ text # <<>>
            /\ \A i \in 1..Len(text) : IsDigit(text[i])
            /\ (Len(text) = 1 \/ text[1] # 48)
    THEN IF Len(text) > 4300
         THEN [ok |-> FALSE, value |-> <<>>, error |-> "ValueError"]
         ELSE [ok |-> TRUE, value |-> text, error |-> "none"]
    ELSE [ok |-> FALSE, value |-> <<>>, error |-> "JSONDecodeError"]

\* Without a space json_data is None and loads raises TypeError.  The handler
\* catches JSONDecodeError and TypeError and passes None (a record that is
\* not ok) to the callback; any other exception of loads leaves the handler.
GmcpReceiveSubnegotiate(c, msg) ==
    LET data == Decode(msg.data)
        has_space == Find(data.text, 32) # 0
        command == IF has_space THEN SplitFirst(data.text, 32)[1] ELSE data.text
        loaded == IF has_space THEN JsonLoads(SplitFirst(data.text, 32)[2])
                  ELSE [ok |-> FALSE, value |-> <<>>, error |-> "TypeError"]
    IN  IF ~data.ok THEN Raise(c)
        ELSE IF loaded.error \notin {"none", "JSONDecodeError", "TypeError"} THEN Raise(c)
        ELSE Callback(c, "gmcp", <<command, [ok |-> loaded.ok, value |-> loaded.value]>>)

\* The bytes a zlib compressor emits for byte b (below 144) behind the first
\* chunk of its stream, by compress and a sync flush: a block of the fixed
\* Huffman code that holds the literal b (its code 48 + b, written from the
\* high bit on, behind the three bits of the block header) and the end of
\* the block, and an empty stored block, 00 00 FF FF.  The first chunk of a
\* stream is the zlib header, 78 9C, and these bytes.
Deflated(b) ==
    LET code == 48 + b
    IN  <<2 + 8 * (code \div 128) + 16 * ((code \div 64) % 2)
            + 32 * ((code \div 32) % 2) + 64 * ((code \div 16) % 2)
            + 128 * ((code \div 8) % 2),
          ((code \div 4) % 2) + 2 * ((code \div 2) % 2) + 4 * (code % 2),
          0, 0, 0, 255, 255>>

\* the literal that the first two bytes of a block of the fixed Huffman code
\* hold when the end of the block follows it, and -1 when they hold none
Literal(b0, b1) ==
    LET code == 128 * ((b0 \div 8) % 2) + 64 * ((b0 \div 16) % 2)
                + 32 * ((b0 \div 32) % 2) + 16 * ((b0 \div 64) % 2)
                + 8 * (b0 \div 128) + 4 * (b1 % 2) + 2 * ((b1 \div 2) % 2)
                + ((b1 \div 4) % 2)
    IN  IF code \in 48..191 /\ b1 \div 8 = 0 THEN code - 48 ELSE -1

\* the two bytes are a zlib header: method 8, window of at most 32K, check
\* bits
ValidHeader(cmf, flg) ==
    cmf % 16 = 8 /\ cmf \div 16 <= 7 /\ (cmf * 256 + flg) % 31 = 0

\* zlib.decompressobj(): an inflater that has read nothing
NewInflater == [mode |-> "header", held |-> <<>>]

\* The inflater after one more input byte.  mode is "header" while the two
\* header bytes are being read (held: the one read so far), "stream" at a
\* block boundary, "block" inside a chunk as a compressor emits it (held: its
\* bytes read so far), "failed" once an error was met (the object then fails
\* on every call), "open" inside a header that asks for a dictionary or a
\* block of another form, and "unmodelled" once such a header or block was
\* given more input, which is not modelled.  At a block boundary the type
\* bits 11 are an error; in a chunk the literal is followed by the end of
\* the block and the header of a stored block, and the length of the stored
\* block by its complement.
InflateItem(z, x) ==
    CASE z.mode = "header" /\ z.held = <<>> -> [mode |-> "header", held |-> <<x>>]
      [] z.mode = "header" /\ z.held # <<>> ->
             IF ~ValidHeader(z.held[1], x) THEN [mode |-> "failed", held |-> <<>>]
             ELSE IF (x \div 32) % 2 = 1 THEN [mode |-> "open", held |-> <<>>]
             ELSE [mode |-> "stream", held |-> <<>>]
      [] z.mode = "stream" ->
             IF (x \div 2) % 4 = 3 THEN [mode |-> "failed", held |-> <<>>]
             ELSE IF x % 8 = 2 THEN [mode |-> "block", held |-> <<x>>]
             ELSE [mode |-> "open", held |-> <<>>]
      [] z.mode = "block" /\ Len(z.held) = 1 ->
             IF Literal(z.held[1], x) >= 0 THEN [z EXCEPT !.held = Append(@, x)]
             ELSE [mode |-> "unmodelled", held |-> <<>>]
      [] z.mode = "block" /\ Len(z.held) = 2 ->
             IF x % 32 = 0 THEN [z EXCEPT !.held = Append(@, x)]
             ELSE [mode |-> "unmodelled", held |-> <<>>]
      [] z.mode = "block" /\ Len(z.held) \in 3..5 -> [z EXCEPT !.held = Append(@, x)]
      [] z.mode = "block" /\ Len(z.held) = 6 ->
             IF z.held[4] + z.held[6] # 255 \/ z.held[5] + x # 255
             THEN [mode |-> "failed", held |-> <<>>]
             ELSE IF z.held[4] = 0 /\ z.held[5] = 0 THEN [mode |-> "stream", held |-> <<>>]
             ELSE [mode |-> "unmodelled", held |-> <<>>]
      [] z.mode = "open" -> [mode |-> "unmodelled", held |-> <<>>]
      [] OTHER -> z

\* The inflater after the bytes of data, one after the other, and the bytes
\* they inflate to: the literal of a chunk is given when the second byte of
\* its block is read.  (The value of the recursive call is bound once, by a
\* singleton set.)
RECURSIVE InflateAll(_, _)
InflateAll(z, data) ==
    IF data = <<>> THEN [z |-> z, data |-> <<>>]
    ELSE LET x == Head(data)
             read == /\ z.mode = "block" /\ Len(z.held) = 1
                     /\ Literal(z.held[1], x) >= 0
         IN  CHOOSE inflated \in
                 {[z |-> rest.z,
                   data |-> IF read THEN <<Literal(z.held[1], x)>> \o rest.data
                            ELSE rest.data] :
                    rest \in {InflateAll(next, Tail(data)) :
                                next \in {InflateItem(z, x)}}} : TRUE

\* no inflater of the engine p has been taken out of what is modelled
Modelled(p) ==
    \A o \in DOMAIN p.tn_options : p.tn_options[o].decompressor.mode # "unmodelled"

\* decompressor.decompress(data) on the inflater z: ok is FALSE where zlib
\* raises zlib.error, and the call then returns nothing; data is what is
\* returned (the literals of the chunks; header bytes and an opened block
\* give none) and z is the inflater after the call
Decompress(z, data) ==
    LET after == InflateAll(z, data)
    IN  IF after.z.mode = "failed"
        THEN [ok |-> FALSE, data |-> <<>>, z |-> after.z]
        ELSE [ok |-> TRUE, data |-> after.data, z |-> after.z]

Mccp3ReceiveSubnegotiate(c, msg) ==
    IF ~c.p.capabilities.mccp3_enabled
    THEN LET c1 == change_capabilities(c, << <<"mccp3_enabled", TRUE>> >>)
             inflated == Decompress(NewInflater, c1.p.tn_in_buffer)
         IN  IF c1.raised THEN c1
             ELSE [c1 EXCEPT !.p.in_transformers = Append(@, MCCP3),
                             !.p.tn_options[MCCP3].decompressor = inflated.z,
                             !.p.tn_read_buffer =
                                 IF inflated.ok THEN inflated.data ELSE @]
    ELSE c

at_receive_subnegotiate(c, o, msg) ==
    CASE o = NAWS -> {NawsReceiveSubnegotiate(c, msg)}
      [] o = CHARSET -> {CharsetReceiveSubnegotiate(c, msg)}
      [] o = MTTS -> MttsReceiveSubnegotiate(c, msg)
      [] o = GMCP -> {GmcpReceiveSubnegotiate(c, msg)}
      [] o = MCCP3 -> {Mccp3ReceiveSubnegotiate(c, msg)}
      [] OTHER -> {c}

at_send_negotiate(c, o, msg) == c

at_send_subnegotiate(c, o, msg) ==
    IF o = MCCP2 /\ ~c.p.capabilities.mccp2_enabled
    THEN LET c1 == change_capabilities(c, << <<"mccp2_enabled", TRUE>> >>)
         IN  IF c1.raised THEN c1
             ELSE [c1 EXCEPT !.p.out_transformers = Append(@, MCCP2),
                             !.p.tn_options[MCCP2].compressor = 0]
    ELSE c

(***************************************************************************)
(* MudTelnetProtocol                                                       *)
(***************************************************************************)
\* the body of start(): every handler's start(), in the order of _tn_options
RECURSIVE StartOptions(_, _)
StartOptions(c, options) ==
    IF options = <<>> THEN c
    ELSE StartOptions(OptionStart(c, Head(options)), Tail(options))

\* _tn_options keeps the order of supported_options (each code once)
RECURSIVE OptionOrder(_, _)
OptionOrder(options, seen) ==
    IF options = <<>> THEN <<>>
    ELSE IF Head(options) \in seen THEN OptionOrder(Tail(options), seen)
    ELSE <<Head(options)>> \o OptionOrder(Tail(options), seen \cup {Head(options)})

start(c) == StartOptions(c, OptionOrder(c.p.supported_options, {}))

\* the list start() returns: one negotiation.wait() per handler, given here
\* by the option code of the handler
StartReturn(c) == OptionOrder(c.p.supported_options, {})

\* the while loop of _tn_handle_data
RECURSIVE HandleLines(_)
HandleLines(c) ==
    LET newline_pos == Find(c.p.tn_app_data, LF)
        line == DecodeIgnore(RStripCrLf(Take(c.p.tn_app_data, newline_pos - 1)))
    IN  IF c.raised \/ newline_pos = 0 THEN c
        ELSE HandleLines(
                 Callback([c EXCEPT !.p.tn_app_data = Drop(@, newline_pos)],
                          "line", <<line>>))

_tn_handle_data(c, message) ==
    HandleLines([c EXCEPT !.p.tn_app_data = @ \o message.data])

_tn_handle_command(c, message) == Callback(c, "command", <<message.command>>)

_tn_handle_negotiate(c, message) ==
    IF message.option \in DOMAIN c.p.tn_options
    THEN at_receive_negotiate(c, message.option, message)
    ELSE CASE message.command = WILL -> QueuePut(c, TelnetNegotiate(DONT, message.option))
           [] message.command = DO -> QueuePut(c, TelnetNegotiate(WONT, message.option))
           [] OTHER -> c

_tn_handle_subnegotiate(c, message) ==
    IF message.option \in DOMAIN c.p.tn_options
    THEN at_receive_subnegotiate(c, message.option, message)
    ELSE {c}

\* the set of contexts the dispatch of one message can end in
_tn_at_telnet_message(c, message) ==
    CASE message.kind = "Data" -> {_tn_handle_data(c, message)}
      [] message.kind = "Command" -> {_tn_handle_command(c, message)}
      [] message.kind = "Negotiate" -> {_tn_handle_negotiate(c, message)}
      [] message.kind = "SubNegotiate" -> _tn_handle_subnegotiate(c, message)
      [] OTHER -> {c}

\* op.transform_incoming_data(data) of the handler of option o: the result
\* of the call and the context with the inflater advanced
transform_incoming_data(c, o, data) ==
    IF o = MCCP3 /\ c.p.tn_options[o].decompressor # NoInflater
    THEN LET r == Decompress(c.p.tn_options[o].decompressor, data)
         IN  [ok |-> r.ok, data |-> r.data,
              c |-> [c EXCEPT !.p.tn_options[o].decompressor = r.z]]
    ELSE [ok |-> TRUE, data |-> data, c |-> c]

\* the loop of receive_data over _in_transformers, from the i-th on
RECURSIVE TransformIn(_, _, _)
TransformIn(c, i, data) ==
    IF i > Len(c.p.in_transformers) THEN [ok |-> TRUE, data |-> data, c |-> c]
    ELSE LET r == transform_incoming_data(c, c.p.in_transformers[i], data)
         IN  IF ~r.ok THEN r ELSE TransformIn(r.c, i + 1, r.data)

\* A chunk of the output stream: the message it serializes, its bytes before
\* compression, and z, the positions it takes in the compressed streams it
\* went through (<<>>: it is sent as plain bytes).
Chunk(message) == [message |-> message, bytes |-> Bytes(message), z |-> <<>>]

\* op.transform_outgoing_data(data) of the handler of option o: the chunk
\* and the context with the compressor advanced
transform_outgoing_data(c, o, chunk) ==
    IF o = MCCP2 /\ c.p.tn_options[o].compressor # -1
    THEN [c |-> [c EXCEPT !.p.tn_options[o].compressor = @ + 1],
          chunk |-> [chunk EXCEPT !.z = Append(@, c.p.tn_options[o].compressor)]]
    ELSE [c |-> c, chunk |-> chunk]

RECURSIVE TransformOut(_, _, _)
TransformOut(c, i, chunk) ==
    IF i > Len(c.p.out_transformers) THEN [c |-> c, chunk |-> chunk]
    ELSE LET r == transform_outgoing_data(c, c.p.out_transformers[i], chunk)
         IN  TransformOut(r.c, i + 1, r.chunk)

_tn_encode_outgoing_data(c, data) == TransformOut(c, 1, Chunk(data))

\* a turn of output_stream that runs the hooks before it encodes the message
OutputTurnHooksFirst(c, data) ==
    LET known == data.option \in DOMAIN c.p.tn_options
        c1 == CASE data.kind = "Negotiate" /\ known ->
                     at_send_negotiate(c, data.option, data)
                [] data.kind = "SubNegotiate" /\ known ->
                     at_send_subnegotiate(c, data.option, data)
                [] OTHER -> c
        enc == _tn_encode_outgoing_data(c1, data)
    IN  [c |-> enc.c, chunk |-> enc.chunk]

\* one turn of the loop of output_stream on the message taken from the
\* queue: the context after the hooks and the chunk to yield
OutputTurn(c, data) ==
    LET enc == _tn_encode_outgoing_data(c, data)
        known == data.option \in DOMAIN c.p.tn_options
        c1 == CASE data.kind = "Negotiate" /\ known ->
                     at_send_negotiate(enc.c, data.option, data)
                [] data.kind = "SubNegotiate" /\ known ->
                     at_send_subnegotiate(enc.c, data.option, data)
                [] OTHER -> enc.c
    IN  [c |-> c1, chunk |-> enc.chunk]

send_text(c, text) == QueuePut(c, SendTextMessage(text))

\* json_library.dumps(data): a JSON value is held as its JSON text
JsonDumps(data) == data

\* GMCPOption.send_gmcp(command, data); data is None (as a message) when the
\* host passes none
GmcpSendGmcp(c, command, data) ==
    send_subnegotiate(c, GMCP,
                      Encode(command)
                      \o (IF data # None THEN Encode(<<32>> \o JsonDumps(data)) ELSE <<>>))

\* MudTelnetProtocol.send_gmcp: without a GMCP handler op is None and the
\* call raises AttributeError
send_gmcp(c, command, data) ==
    IF c.p.capabilities.gmcp
    THEN IF GMCP \in DOMAIN c.p.tn_options THEN GmcpSendGmcp(c, command, data)
         ELSE Raise(c)
    ELSE c

send_line(c, text) ==
    send_text(c, IF EndsWith(text, <<LF>>) THEN text ELSE text \o <<LF>>)

\* the loop of MSSPOption.send_mssp over the items of the dict
RECURSIVE MsspItems(_)
MsspItems(data) ==
    IF data = <<>> THEN <<>>
    ELSE <<1>> \o Encode(Head(data)[1]) \o <<2>> \o Encode(Head(data)[2])
         \o MsspItems(Tail(data))

\* MSSPOption.send_mssp(data); data is the dict as the sequence of its
\* (key, value) items
MsspSendMssp(c, data) ==
    IF data = <<>> THEN c ELSE send_subnegotiate(c, MSSP, MsspItems(data))

\* MudTelnetProtocol.send_mssp: without an MSSP handler op is None and the
\* call raises AttributeError
send_mssp(c, data) ==
    IF c.p.capabilities.mssp
    THEN IF MSSP \in DOMAIN c.p.tn_options THEN MsspSendMssp(c, data)
         ELSE Raise(c)
    ELSE c

(***************************************************************************)
(* The engine and its environment as a state machine.                      *)
(*                                                                         *)
(* proto is the MudTelnetProtocol object, with the host's callbacks        *)
(* registered.  The peer sends a stream of frames (wire); the host's       *)
(* reader task hands it, in chunks of any size, to receive_data, whose     *)
(* loop runs one iteration per step; the host's writer task consumes       *)
(* output_stream; the application calls start, send_text, send_line,       *)
(* send_gmcp, send_mssp and change_capabilities.                           *)
(* A callback of the host may raise in any dispatch, and it may suspend    *)
(* the handler that awaits it: the dispatch and the turn of output_stream  *)
(* are then carried on in a later step, and the steps of the other tasks   *)
(* come in between.                                                        *)
(***************************************************************************)
VARIABLES
    proto,        \* the MudTelnetProtocol object
    started,      \* start() has been called
    wire,         \* the bytes the peer sends that receive_data has not been given yet
    peer_option,  \* the option the peer's frames are about in this run
    rx_pc,        \* "idle", or "loop" while a receive_data call is in its loop
    rx_all,       \* history: all bytes appended to the inbound buffer
    rx_consumed,  \* history: sum of the `consumed` of the frames parsed
    output,       \* history: the chunks output_stream has yielded
    heard,        \* history: per option, what the peer said about it
    p_src,        \* codec run: "bytes", "frame", "text" ("none" in engine runs)
    p_frame,      \* codec run: the frame that is serialized
    p_text,       \* codec run: the text given to send_text
    p_in,         \* codec run: the bytes handed to the parser
    p_buf,        \* codec run: the bytes not consumed yet
    p_out,        \* codec run: the frames parsed so far
    p_first,      \* codec run: the result of the first parse_telnet call
    p_pc,         \* codec run: "new", "queued", "parsing", "done" ("idle" in engine runs)
    script,       \* host run: the frames still to be handed to the dispatcher
    trace,        \* history of a traced run: the dispatches and what they fired
    traced,       \* whether the run keeps the trace
    rx_task,      \* the dispatch the reader task is suspended in, if any
    out_task      \* the turn of output_stream the writer task is suspended in, if any

engine_vars == <<proto, started, wire, peer_option, rx_pc, rx_all,
                 rx_consumed, output, heard>>

codec_vars == <<p_src, p_frame, p_text, p_in, p_buf, p_out, p_first, p_pc>>

host_vars == <<script, trace, traced>>

vars == <<proto, started, wire, peer_option, rx_pc, rx_all,
          rx_consumed, output, heard,
          p_src, p_frame, p_text, p_in, p_buf, p_out, p_first, p_pc,
          script, trace, traced, rx_task, out_task>>

\* an option code without a handler class
MSDP == 69
\* TelnetCode.NULL, here: the peer talks about no option
NULL == 0

\* frames the peer sends in one run
MaxPeerFrames == 1
\* bytes the peer sends in one run of the engine with its tasks
MaxWire == 12
\* frames enqueued on top of those of start() from which the loop dispatches
\* no more and the application sends no more
MaxExtra == 2
\* length of the partial-line buffer from which the loop dispatches no more
MaxAppData == 2

\* dispatches a traced run records
MaxTrace == 4
\* frames a host run hands to the dispatcher
MaxScript == 2

AllCallbacks == {"line", "command", "change_capabilities", "gmcp"}

\* The supported_options the engine is constructed with, paired with what
\* the peer talks about in the run: the default set of handlers facing
\* application data (NULL) or an option without a handler (MSDP), and each
\* handler alone facing the negotiation of its own option.
Setups ==
    {<<ALL_OPTIONS, o>> : o \in {NULL, MSDP}}
    \cup {<<(<<o>>), o>> : o \in Range(ALL_OPTIONS)}

\* In one run the peer either negotiates one option (peer_option) or sends
\* application data and commands (peer_option = NULL).
PeerOptions == Range(ALL_OPTIONS) \cup {MSDP, NULL}

\* subnegotiation payloads the peer sends for option o
PeerPayloads(o) ==
    CASE o = NAWS -> {<<0, 80, 0, 24>>, <<0, 80>>}
      [] o = CHARSET -> {<<2>> \o TextUtf8, <<3>>}
      [] o = MTTS -> {<<0, 88, 32, 49>>, <<0>>}
      [] o = GMCP -> {<<97, 32, 123, 125>>}
      [] OTHER -> {<<>>}

PeerFrames(o) ==
    IF o = NULL
    THEN {TelnetData(<<65>>), TelnetData(<<65, CR, LF>>), TelnetCommand(NOP)}
    ELSE {TelnetNegotiate(verb, o) : verb \in {WILL, WONT, DO, DONT}}
         \cup {TelnetSubNegotiate(o, d) : d \in PeerPayloads(o)}

\* the text the application gives to send_text, "hi\n"
SendTexts == {<<104, 105, LF>>}

NoHeard == [verbs |-> {}, sb |-> FALSE, raised |-> FALSE, early |-> FALSE]

CodecIdle ==
    /\ p_src = "none" /\ p_frame = None /\ p_text = <<>> /\ p_in = <<>>
    /\ p_buf = <<>> /\ p_out = <<>> /\ p_first = [consumed |-> 0, message |-> None]
    /\ p_pc = "idle"

\* a task that is suspended in no callback
IdleTask ==
    [parked |-> FALSE, direct |-> FALSE, early |-> FALSE, message |-> None,
     pre |-> None, snap |-> None, torn |-> FALSE, at |-> <<>>, lives |-> <<>>,
     fired |-> <<>>, asked |-> <<>>]

\* a send_gmcp call of the script: data holds the command text, and command
\* is 1 when the host passes the data {} and 0 when it passes none
GmcpCall(command, with_data) ==
    [kind |-> "SendGmcp", command |-> IF with_data THEN 1 ELSE 0, option |-> GMCP,
     data |-> command]

\* a send_mssp call of the script: data holds the items of the dict
MsspCall(data) == [kind |-> "SendMssp", command |-> 0, option |-> MSSP, data |-> data]

\* the send_gmcp, send_mssp and change_capabilities calls the application
\* makes in a run of the engine with its tasks; it calls
\* change_capabilities({"sga": True}) on an engine whose peer negotiates
\* SGA, and data holds the items of the dict
AppCalls(o) ==
    CASE o = GMCP -> {<<>>, <<GmcpCall(<<97>>, TRUE)>>}
      [] o = MSSP -> {<<>>, <<MsspCall(<< <<(<<78, 65, 77, 69>>), (<<120>>)>> >>)>>}
      [] o = SGA -> {<<>>, <<[kind |-> "ChangeCapabilities", command |-> 0,
                               option |-> 0, data |-> << <<"sga", TRUE>> >>]>>}
      [] OTHER -> {<<>>}

Init ==
    /\ \E setup \in Setups :
         /\ proto = MudTelnetProtocol(setup[1], AllCallbacks)
         /\ peer_option = setup[2]
    /\ started = FALSE
    /\ wire \in {Flatten([i \in 1..Len(frames) |-> Bytes(frames[i])]) :
                   frames \in SeqsUpTo(PeerFrames(peer_option), MaxPeerFrames)}
    /\ Len(wire) <= MaxWire
    /\ rx_pc = "idle"
    /\ rx_all = <<>>
    /\ rx_consumed = 0
    /\ output = <<>>
    /\ heard = [o \in PeerOptions |-> NoHeard]
    /\ CodecIdle
    /\ script \in IF peer_option = GMCP /\ wire # <<>> THEN {<<>>}
                  ELSE AppCalls(peer_option)
    /\ trace = <<>>
    /\ traced = FALSE
    /\ rx_task = IdleTask /\ out_task = IdleTask

\* frames the start() of this engine enqueues
NumStartFrames ==
    Cardinality({o \in DOMAIN proto.tn_options : start_local(o)})
    + Cardinality({o \in DOMAIN proto.tn_options : start_remote(o)})

\* frames enqueued so far on top of those of start()
Extras(p, out) ==
    Len(p.tn_out_queue) + Len(out) - (IF started THEN NumStartFrames ELSE 0)

\* the trace entry of one dispatch: the message, whether an exception left
\* the dispatch, the callbacks it invoked, the capability changes it asked
\* for, whether a host callback it invoked raised (fail), whether the
\* host called the dispatcher itself (direct) or the loop of receive_data
\* did, and whether another task changed the engine while the dispatch was
\* suspended in a callback (torn)
Traced(message, c, direct, torn) ==
    [message |-> message, raised |-> c.raised, fired |-> c.fired,
     asked |-> c.asked, fail |-> c.fail > 0 /\ Len(c.fired) >= c.fail, direct |-> direct,
     torn |-> torn]

\* The task whose handler run c has just been suspended: the message it
\* handles, the engine `pre` the run began on, the engine `snap` it leaves
\* to the other tasks, whether they changed the engine during an earlier
\* suspension of the run (torn), the callbacks it was suspended at, the
\* engines found when they returned, and the callbacks invoked and the
\* changes asked so far.
Parked(message, pre, c, direct, early, torn) ==
    [parked |-> TRUE, direct |-> direct, early |-> early, message |-> message,
     pre |-> pre, snap |-> c.p, torn |-> torn, at |-> Append(c.at, c.park),
     lives |-> c.lives, fired |-> c.fired, asked |-> c.asked]

\* How the callbacks of a run of the task behave from where the run stands:
\* the callback that raises (0: none) and the callback at which the run is
\* suspended next (0: it is not suspended again).  The callback the run is
\* suspended at returns or raises; those behind it return, raise or suspend.
Behaviours(task) ==
    LET last == IF task.at = <<>> THEN 0 ELSE task.at[Len(task.at)]
    IN  {b \in (0..MaxPark) \X (0..MaxPark) :
            /\ b[1] = 0 \/ b[2] = 0
            /\ b[1] > 0 => b[1] >= Max(last, 1)
            /\ b[2] > 0 => b[2] > last}

\* the application calls start()
Start ==
    /\ ~started
    /\ proto' = start(Context(proto, 0)).p
    /\ started' = TRUE
    /\ UNCHANGED <<wire, peer_option, rx_pc, rx_all, rx_consumed, output, heard>>
    /\ UNCHANGED codec_vars
    /\ UNCHANGED host_vars
    /\ UNCHANGED <<rx_task, out_task>>

\* The host calls receive_data(data) with the next bytes of the connection:
\* the transformer chain runs, data is appended to the buffer and the loop
\* is entered.
ReceiveData ==
    /\ rx_pc = "idle" /\ ~rx_task.parked
    /\ \E k \in 1..Len(wire) :
         LET data == Take(wire, k)
             c == Context(proto, 0)
             in_data == TransformIn(c, 1, data)
         IN  /\ Modelled(in_data.c.p)
             /\ wire' = Drop(wire, k)
             /\ IF in_data.ok
                THEN /\ proto' = [in_data.c.p EXCEPT !.tn_in_buffer = @ \o data]
                     /\ rx_all' = rx_all \o data
                     /\ rx_pc' = "loop"
                ELSE /\ proto' = in_data.c.p
                     /\ UNCHANGED <<rx_all, rx_pc>>
    /\ UNCHANGED <<started, peer_option, rx_consumed, output, heard>>
    /\ UNCHANGED codec_vars
    /\ UNCHANGED host_vars
    /\ UNCHANGED <<rx_task, out_task>>

\* what is known of the peer after the dispatch of message; early says that
\* the dispatch began before start()
Hear(h, message, raised, early) ==
    IF message.kind \in {"Negotiate", "SubNegotiate"} /\ message.option \in DOMAIN h
    THEN [h EXCEPT ![message.option] =
            [verbs |-> IF ~early /\ message.kind = "Negotiate"
                       THEN @.verbs \cup {message.command} ELSE @.verbs,
             sb |-> @.sb \/ (~early /\ message.kind = "SubNegotiate"),
             raised |-> @.raised \/ raised,
             early |-> @.early \/ early]]
    ELSE h

\* One iteration of the loop of receive_data that parses a message: the
\* buffer is cut with `del self._tn_in_buffer[consumed:]` and the message is
\* dispatched.  An exception of the dispatch ends the call.
LoopDispatch ==
    /\ rx_pc = "loop" /\ ~rx_task.parked
    /\ LET parsed == parse_telnet(proto.tn_in_buffer)
           p1 == [proto EXCEPT !.tn_in_buffer = Take(@, parsed.consumed)]
       IN  /\ parsed.message # None
           /\ \E b \in Behaviours(rx_task) :
                \E c \in _tn_at_telnet_message(Resumed(p1, b[1], b[2], <<>>, <<>>),
                                              parsed.message) :
                  /\ c.parked <=> b[2] > 0
                  /\ b[1] > 0 => Len(c.fired) >= b[1]
                  /\ Len(proto.tn_app_data) < MaxAppData
                  /\ Extras(proto, output) < MaxExtra
                  /\ Modelled(c.p)
                  /\ proto' = c.p
                  /\ rx_consumed' = Min(rx_consumed + parsed.consumed, Len(rx_all) + 1)
                  /\ traced => Len(trace) < MaxTrace
                  /\ IF c.parked
                     THEN /\ rx_task' = Parked(parsed.message, p1, c, FALSE, ~started,
                                               FALSE)
                          /\ UNCHANGED <<rx_pc, heard, trace>>
                     ELSE /\ rx_pc' = IF c.raised THEN "idle" ELSE "loop"
                          /\ heard' = Hear(heard, parsed.message, c.raised, ~started)
                          /\ trace' = IF traced
                                       THEN Append(trace, Traced(parsed.message, c, FALSE, FALSE))
                                       ELSE trace
                          /\ UNCHANGED rx_task
    /\ UNCHANGED <<started, wire, peer_option, rx_all, output, out_task>>
    /\ UNCHANGED codec_vars
    /\ UNCHANGED <<script, traced>>

\* The callback in which the dispatch of the reader task is suspended returns
\* or raises, and the dispatch goes on, to its end or to the next callback
\* that suspends it.  The dispatch is run again from where it began, with the
\* engine as it is now in the place of the one the callback was awaited on.
\* The change_capabilities call of a host run that is suspended in its
\* callback goes on in the same way.
DispatchResume ==
    /\ rx_task.parked
    /\ \E b \in Behaviours(rx_task) :
         \E c \in (LET resumed == Resumed(rx_task.pre, b[1], b[2], rx_task.at,
                                          Append(rx_task.lives, proto))
                   IN  IF rx_task.message.kind = "ChangeCapabilities"
                       THEN {change_capabilities(resumed, rx_task.message.data)}
                       ELSE _tn_at_telnet_message(resumed, rx_task.message)) :
           /\ StartsWith(c.fired, rx_task.fired) /\ StartsWith(c.asked, rx_task.asked)
           /\ c.parked <=> b[2] > 0
           /\ b[1] > 0 => Len(c.fired) >= b[1]
           /\ Modelled(c.p)
           /\ proto' = c.p
           /\ IF c.parked
              THEN /\ rx_task' = Parked(rx_task.message, rx_task.pre, c,
                                        rx_task.direct, rx_task.early,
                                        rx_task.torn \/ proto # rx_task.snap)
                   /\ UNCHANGED <<rx_pc, heard, trace>>
              ELSE /\ rx_task' = IdleTask
                   /\ rx_pc' = IF rx_task.direct \/ c.raised THEN "idle" ELSE "loop"
                   /\ heard' = Hear(heard, rx_task.message, c.raised, rx_task.early)
                   /\ trace' = IF traced
                                THEN Append(trace, Traced(rx_task.message, c, rx_task.direct,
                                                   rx_task.torn \/ proto # rx_task.snap))
                                ELSE trace
    /\ UNCHANGED <<started, wire, peer_option, rx_all, rx_consumed, output, out_task>>
    /\ UNCHANGED codec_vars
    /\ UNCHANGED <<script, traced>>

\* The iteration in which parse_telnet returns (0, None): receive_data
\* returns len(self._tn_in_buffer).
LoopReturn ==
    /\ rx_pc = "loop" /\ ~rx_task.parked
    /\ parse_telnet(proto.tn_in_buffer).message = None
    /\ rx_pc' = "idle"
    /\ UNCHANGED <<proto, started, wire, peer_option, rx_all, rx_consumed,
                   output, heard>>
    /\ UNCHANGED codec_vars
    /\ UNCHANGED host_vars
    /\ UNCHANGED <<rx_task, out_task>>

\* the application calls send_text(text)
SendText ==
    /\ Extras(proto, output) < MaxExtra
    /\ \E text \in SendTexts : proto' = send_text(Context(proto, 0), text).p
    /\ UNCHANGED <<started, wire, peer_option, rx_pc, rx_all, rx_consumed,
                   output, heard>>
    /\ UNCHANGED codec_vars
    /\ UNCHANGED host_vars
    /\ UNCHANGED <<rx_task, out_task>>

\* the application calls send_line("hi")
SendLine ==
    /\ Extras(proto, output) < MaxExtra
    /\ proto' = send_line(Context(proto, 0), <<104, 105>>).p
    /\ UNCHANGED <<started, wire, peer_option, rx_pc, rx_all, rx_consumed,
                   output, heard>>
    /\ UNCHANGED codec_vars
    /\ UNCHANGED host_vars
    /\ UNCHANGED <<rx_task, out_task>>

\* The writer task takes the next chunk from output_stream: one turn of its
\* loop.  When a hook raises, the generator ends without yielding the chunk.
OutputStep ==
    /\ ~out_task.parked
    /\ proto.tn_out_queue # <<>>
    /\ \E b \in Behaviours(out_task) :
         LET data == Head(proto.tn_out_queue)
             p1 == [proto EXCEPT !.tn_out_queue = Tail(@)]
             r == OutputTurn(Resumed(p1, b[1], b[2], <<>>, <<>>), data)
         IN  /\ r.c.parked <=> b[2] > 0
             /\ b[1] > 0 => Len(r.c.fired) >= b[1]
             /\ proto' = r.c.p
             /\ IF r.c.parked
                THEN /\ out_task' = Parked(data, p1, r.c, FALSE, ~started, FALSE)
                     /\ UNCHANGED output
                ELSE /\ output' = IF r.c.raised THEN output ELSE Append(output, r.chunk)
                     /\ UNCHANGED out_task
    /\ UNCHANGED <<started, wire, peer_option, rx_pc, rx_all, rx_consumed,
                   heard, rx_task>>
    /\ UNCHANGED codec_vars
    /\ UNCHANGED host_vars

\* The callback in which the turn of output_stream is suspended returns or
\* raises, and the turn goes on: the hook installs what it installs and the
\* chunk encoded before the hook is yielded.
OutputResume ==
    /\ out_task.parked
    /\ \E b \in Behaviours(out_task) :
         LET r == OutputTurn(Resumed(out_task.pre, b[1], b[2], out_task.at,
                                     Append(out_task.lives, proto)),
                             out_task.message)
         IN  /\ r.c.parked <=> b[2] > 0
             /\ b[1] > 0 => Len(r.c.fired) >= b[1]
             /\ proto' = r.c.p
             /\ IF r.c.parked
                THEN /\ out_task' = Parked(out_task.message, out_task.pre, r.c, FALSE,
                                          out_task.early,
                                          out_task.torn \/ proto # out_task.snap)
                     /\ UNCHANGED output
                ELSE /\ output' = IF r.c.raised THEN output ELSE Append(output, r.chunk)
                     /\ out_task' = IdleTask
    /\ UNCHANGED <<started, wire, peer_option, rx_pc, rx_all, rx_consumed,
                   heard, rx_task>>
    /\ UNCHANGED codec_vars
    /\ UNCHANGED host_vars

\* The send_gmcp(command, data) call that is next in the script is made; in
\* a host run the task that drives the dispatcher makes it.
SendGmcp ==
    /\ traced => rx_pc = "idle" /\ ~rx_task.parked
    /\ ~traced => Extras(proto, output) < MaxExtra
    /\ script # <<>>
    /\ Head(script).kind = "SendGmcp"
    /\ LET call == Head(script)
           c == send_gmcp(Context(proto, 0), call.data,
                          IF call.command = 1 THEN <<123, 125>> ELSE None)
       IN  /\ proto' = c.p
           /\ trace' = IF traced THEN Append(trace, Traced(call, c, TRUE, FALSE)) ELSE trace
    /\ script' = Tail(script)
    /\ UNCHANGED <<started, wire, peer_option, rx_pc, rx_all, rx_consumed,
                   output, heard, traced>>
    /\ UNCHANGED codec_vars
    /\ UNCHANGED <<rx_task, out_task>>

\* The send_mssp(data) call that is next in the script is made; in a host
\* run the task that drives the dispatcher makes it.
SendMssp ==
    /\ traced => rx_pc = "idle" /\ ~rx_task.parked
    /\ ~traced => Extras(proto, output) < MaxExtra
    /\ script # <<>>
    /\ Head(script).kind = "SendMssp"
    /\ LET call == Head(script)
           c == send_mssp(Context(proto, 0), call.data)
       IN  /\ proto' = c.p
           /\ trace' = IF traced THEN Append(trace, Traced(call, c, TRUE, FALSE)) ELSE trace
    /\ script' = Tail(script)
    /\ UNCHANGED <<started, wire, peer_option, rx_pc, rx_all, rx_consumed,
                   output, heard, traced>>
    /\ UNCHANGED codec_vars
    /\ UNCHANGED <<rx_task, out_task>>

\* The change_capabilities(changes) call that is next in the script is made.
\* In a host run the task that drives the dispatcher makes it: the host's
\* callback returns, raises or suspends the call, which then goes on in
\* DispatchResume while other tasks use the engine.  In a run of the engine
\* with its tasks any task makes the call, and no trace is kept: the dict
\* has one item, whose attribute is set before the callback is awaited, and
\* nothing follows the callback, so that the engine the other tasks find is
\* the same whether the callback has returned, has raised or is suspended.
ChangeCapabilities ==
    /\ script # <<>>
    /\ Head(script).kind = "ChangeCapabilities"
    /\ IF traced
       THEN /\ rx_pc = "idle" /\ ~rx_task.parked
            /\ \E b \in Behaviours(rx_task) :
                 LET call == Head(script)
                     c == change_capabilities(Resumed(proto, b[1], b[2], <<>>, <<>>),
                                              call.data)
                 IN  /\ c.parked <=> b[2] > 0
                     /\ b[1] > 0 => Len(c.fired) >= b[1]
                     /\ proto' = c.p
                     /\ IF c.parked
                        THEN /\ rx_task' = Parked(call, proto, c, TRUE, ~started, FALSE)
                             /\ UNCHANGED trace
                        ELSE /\ trace' = Append(trace, Traced(call, c, TRUE, FALSE))
                             /\ UNCHANGED rx_task
       ELSE /\ proto' = change_capabilities(Context(proto, 0), Head(script).data).p
            /\ UNCHANGED <<trace, rx_task>>
    /\ script' = Tail(script)
    /\ UNCHANGED <<started, wire, peer_option, rx_pc, rx_all, rx_consumed,
                   output, heard, traced, out_task>>
    /\ UNCHANGED codec_vars

Next ==
    \/ SendGmcp
    \/ SendMssp
    \/ ChangeCapabilities
    \/ Start
    \/ ReceiveData
    \/ LoopDispatch
    \/ LoopReturn
    \/ SendText
    \/ SendLine
    \/ OutputStep
    \/ DispatchResume
    \/ OutputResume

Spec == Init /\ [][Next]_vars

\* A receive_data call that is in its loop goes on: between two iterations
\* no await gives the thread away, so the iteration is taken.  Whether a
\* callback of the iteration returns, raises or suspends is the host's
\* choice: what the loop owes is the iteration whose callbacks return, and a
\* call that dispatches the same frame again and again without changing the
\* engine goes on for ever.  The writer task and the callbacks on which a
\* handler waits are run by the event loop, which gets the thread only while
\* the reader is not in its loop or is itself suspended in a callback; it
\* then runs every task that is ready.  A callback that suspends a handler
\* returns or raises in the end.
FairSpec ==
    /\ Spec
    /\ WF_vars(LoopDispatch /\ rx_pc' = "loop" /\ ~rx_task'.parked)
    /\ WF_vars(LoopReturn)
    /\ WF_vars((rx_pc = "idle" \/ rx_task.parked) /\ OutputStep)
    /\ WF_vars((rx_pc = "idle" \/ rx_task.parked) /\ OutputResume)
    /\ WF_vars(DispatchResume)

(***************************************************************************)
(* The dispatcher driven frame by frame.  Since receive_data keeps only    *)
(* the frame it has just parsed, its loop never hands a second frame to    *)
(* the dispatcher; what the handlers do with a sequence of frames is seen  *)
(* by awaiting _tn_at_telnet_message for each frame in turn, which is what *)
(* the host does in these runs (script), next to start and receive_data.   *)
(* The runs keep a trace of the dispatches; the output queue is not        *)
(* drained.                                                                *)
(***************************************************************************)
\* frames the host hands to the dispatcher
\* more payloads the host hands to the dispatcher: for CHARSET an ACCEPTED
\* without a name, one whose name is not UTF-8 and an empty payload; for
\* NAWS a second size and a payload of five bytes
ScriptPayloads(o) ==
    CASE o = CHARSET -> {<<2>>, <<2, 195>>, <<>>}
      [] o = NAWS -> {<<1, 4, 0, 50>>, <<0, 80, 0, 24, 0>>}
      [] OTHER -> {}

ScriptFrames(o) ==
    IF o = NULL
    THEN {TelnetData(<<65>>), TelnetData(<<65, CR, LF>>), TelnetData(<<LF, 66>>),
          TelnetData(<<66, CR, CR, LF>>), TelnetCommand(NOP)}
    ELSE PeerFrames(o) \cup {TelnetSubNegotiate(o, d) : d \in ScriptPayloads(o)}

\* What the peer sends in a host run, as the sequence of its parts: frames,
\* and for MCCP3 a deflate stream, the zlib header and the chunk of "A": the
\* whole of it, and behind the subnegotiation its bytes up to the one that
\* completes the literal.
HostWires(o) ==
    CASE o = NULL -> {<<>>, <<Bytes(TelnetData(<<65, CR, LF>>))>>}
      [] o = GMCP -> {<<>>, <<Bytes(TelnetSubNegotiate(GMCP, <<97, 32, 123, 125>>)),
                              Bytes(TelnetCommand(NOP))>>}
      [] o = MCCP3 -> {<<>>, <<(<<120, 156>> \o Deflated(65))>>, <<(<<65>>)>>,
                       <<Bytes(TelnetSubNegotiate(MCCP3, <<>>)),
                         <<120, 156>> \o Take(Deflated(65), 2)>>}
      [] OTHER -> {<<>>}

\* the exchange of MTTS run to its third reply: the peer accepts the option
\* and answers the three requests with a name, a terminal type and
\* "MTTS 64" (screen reader) or "MTTS 5" (ANSI colour and UTF-8)
MttsExchanges ==
    {<<TelnetNegotiate(WILL, MTTS),
       TelnetSubNegotiate(MTTS, <<0, 65>>),
       TelnetSubNegotiate(MTTS, <<0, 66>>),
       TelnetSubNegotiate(MTTS, <<0, 77, 84, 84, 83, 32>> \o number)>> :
         number \in {<<54, 52>>, <<53>>}}

\* "MUDLET 4.10.0", "XTERM-256COLOR" and "MTTS 2349"
TextMudlet == <<77, 85, 68, 76, 69, 84, 32, 52, 46, 49, 48, 46, 48>>
TextXterm256 == <<88, 84, 69, 82, 77, 45, 50, 53, 54, 67, 79, 76, 79, 82>>
TextMtts2349 == <<77, 84, 84, 83, 32, 50, 51, 52, 57>>

\* other exchanges of MTTS: the replies of a Mudlet client; a client that
\* repeats its first reply; a peer that turns the option off and on again
\* after two replies
MttsScenarios ==
    {<<TelnetNegotiate(WILL, MTTS),
       TelnetSubNegotiate(MTTS, <<0>> \o TextMudlet),
       TelnetSubNegotiate(MTTS, <<0>> \o TextXterm256),
       TelnetSubNegotiate(MTTS, <<0>> \o TextMtts2349)>>,
     <<TelnetNegotiate(WILL, MTTS),
       TelnetSubNegotiate(MTTS, <<0, 65>>),
       TelnetSubNegotiate(MTTS, <<0, 65>>)>>,
     <<TelnetNegotiate(WILL, MTTS),
       TelnetSubNegotiate(MTTS, <<0, 65>>),
       TelnetSubNegotiate(MTTS, <<0, 66>>),
       TelnetNegotiate(WONT, MTTS),
       TelnetNegotiate(WILL, MTTS)>>}

\* exchanges of CHARSET: a peer that turns the remote side off and on
\* again; a peer that turns both sides on, off and on again
CharsetScenarios ==
    {<<TelnetNegotiate(WILL, CHARSET), TelnetNegotiate(WONT, CHARSET),
       TelnetNegotiate(WILL, CHARSET)>>,
     <<TelnetNegotiate(DO, CHARSET), TelnetNegotiate(WILL, CHARSET),
       TelnetNegotiate(DONT, CHARSET), TelnetNegotiate(WONT, CHARSET),
       TelnetNegotiate(WILL, CHARSET), TelnetNegotiate(DO, CHARSET)>>}

\* the send_gmcp calls the host makes: a call alone, a call behind the
\* peer's DO 201 and two calls in a row; the send_mssp calls, with the dict
\* {"NAME": "x"} and with an empty dict: a call alone and a call behind the
\* peer's DO 70; the change_capabilities call with the dict {"sga": True},
\* alone and behind the peer's DO 3
ScriptCalls(o) ==
    IF o = GMCP
    THEN LET calls == {GmcpCall(<<97>>, TRUE), GmcpCall(<<97>>, FALSE)}
         IN  {<<call>> : call \in calls}
             \cup {<<TelnetNegotiate(DO, GMCP), call>> : call \in calls}
             \cup {<<GmcpCall(<<97>>, TRUE), GmcpCall(<<97>>, FALSE)>>}
    ELSE IF o = MSSP
    THEN LET calls == {MsspCall(<< <<(<<78, 65, 77, 69>>), (<<120>>)>> >>),
                       MsspCall(<<>>)}
         IN  {<<call>> : call \in calls}
             \cup {<<TelnetNegotiate(DO, MSSP), call>> : call \in calls}
    ELSE IF o = SGA
    THEN LET calls == AppCalls(SGA) \ {<<>>}
         IN  calls \cup {<<TelnetNegotiate(DO, SGA)>> \o call : call \in calls}
    ELSE {}

\* the sequences of frames the host hands to the dispatcher, and of calls it
\* makes
Scripts(o) ==
    SeqsUpTo(ScriptFrames(o), MaxScript)
    \cup ScriptCalls(o)
    \cup (IF o = MTTS THEN MttsExchanges \cup MttsScenarios ELSE {})
    \cup (IF o = CHARSET THEN CharsetScenarios ELSE {})

HostInit ==
    /\ \E setup \in Setups :
         /\ peer_option = setup[2]
         /\ \E gmcp \in (IF setup[2] = GMCP THEN BOOLEAN ELSE {FALSE}) :
              proto = [MudTelnetProtocol(setup[1], AllCallbacks)
                           EXCEPT !.capabilities.gmcp = gmcp]
    /\ started = FALSE
    /\ wire \in {Flatten(parts) : parts \in HostWires(peer_option)}
    /\ rx_pc = "idle"
    /\ rx_all = <<>>
    /\ rx_consumed = 0
    /\ output = <<>>
    /\ heard = [o \in PeerOptions |-> NoHeard]
    /\ CodecIdle
    /\ script \in IF peer_option = GMCP /\ wire # <<>> THEN {<<>>}
                  ELSE Scripts(peer_option)
    /\ trace = <<>>
    /\ traced = TRUE
    /\ rx_task = IdleTask /\ out_task = IdleTask

\* the host awaits _tn_at_telnet_message(message) for the next frame of the
\* script
Dispatch ==
    /\ rx_pc = "idle" /\ ~rx_task.parked
    /\ script # <<>>
    /\ Head(script).kind \notin {"SendGmcp", "SendMssp", "ChangeCapabilities"}
    /\ \E b \in Behaviours(rx_task) :
         \E c \in _tn_at_telnet_message(Resumed(proto, b[1], b[2], <<>>, <<>>),
                                       Head(script)) :
           /\ c.parked <=> b[2] > 0
           /\ b[1] > 0 => Len(c.fired) >= b[1]
           /\ Modelled(c.p)
           /\ proto' = c.p
           /\ IF c.parked
              THEN /\ rx_task' = Parked(Head(script), proto, c, TRUE, ~started,
                                        FALSE)
                   /\ UNCHANGED <<heard, trace>>
              ELSE /\ heard' = Hear(heard, Head(script), c.raised, ~started)
                   /\ trace' = Append(trace, Traced(Head(script), c, TRUE, FALSE))
                   /\ UNCHANGED rx_task
    /\ script' = Tail(script)
    /\ UNCHANGED <<started, wire, peer_option, rx_pc, rx_all, rx_consumed,
                   output, traced, out_task>>
    /\ UNCHANGED codec_vars

HostNext ==
    \/ SendGmcp
    \/ SendMssp
    \/ ChangeCapabilities
    \/ Start
    \/ ReceiveData
    \/ LoopDispatch
    \/ LoopReturn
    \/ Dispatch
    \/ DispatchResume

HostSpec == HostInit /\ [][HostNext]_vars

(***************************************************************************)
(* The codec on its own: parse_telnet applied again and again to a byte    *)
(* sequence, dropping `consumed` bytes from the front after each frame,    *)
(* until it returns (0, None).  The bytes are arbitrary (p_src = "bytes"), *)
(* the serialization of a frame ("frame"), or what output_stream yields    *)
(* for one send_text call on a fresh engine ("text").                      *)
(***************************************************************************)
\* bytes the arbitrary sequences are made of
InputBytes == {IAC, SB, SE, WILL, 65}

\* bytes the payloads of the serialized frames are made of
FrameBytes == {65, IAC, SE}

Frames ==
    {TelnetData(d) : d \in SeqsUpTo(FrameBytes, MaxPayload) \ {<<>>}}
    \cup {TelnetCommand(NOP)}
    \cup {TelnetNegotiate(verb, o) : verb \in {WILL, WONT, DO, DONT}, o \in {SGA, GMCP}}
    \cup {TelnetSubNegotiate(o, d) : o \in {SGA, GMCP}, d \in SeqsUpTo(FrameBytes, MaxPayload)}

\* characters of the texts given to send_text: h, LF, CR, U+00FF and U+20AC
TextChars == {104, LF, CR, 255, 8364}

CodecInit ==
    /\ proto = MudTelnetProtocol(ALL_OPTIONS, AllCallbacks)
    /\ peer_option = NULL
    /\ started = FALSE
    /\ wire = <<>>
    /\ rx_pc = "idle"
    /\ rx_all = <<>>
    /\ rx_consumed = 0
    /\ output = <<>>
    /\ heard = [o \in PeerOptions |-> NoHeard]
    /\ p_src \in {"bytes", "frame", "text"}
    /\ p_in \in IF p_src = "bytes" THEN SeqsUpTo(InputBytes, MaxLen) ELSE {<<>>}
    /\ p_frame \in IF p_src = "frame" THEN Frames ELSE {None}
    /\ p_text \in IF p_src = "text" THEN SeqsUpTo(TextChars, MaxText) ELSE {<<>>}
    /\ p_buf = <<>>
    /\ p_out = <<>>
    /\ p_first = [consumed |-> 0, message |-> None]
    /\ p_pc = "new"
    /\ script = <<>> /\ trace = <<>> /\ traced = FALSE
    /\ rx_task = IdleTask /\ out_task = IdleTask

\* the byte sequence is handed to the parser
Feed ==
    /\ p_pc = "new" /\ p_src = "bytes"
    /\ p_buf' = p_in
    /\ p_pc' = "parsing"
    /\ UNCHANGED <<p_src, p_frame, p_text, p_in, p_out, p_first>>
    /\ UNCHANGED engine_vars
    /\ UNCHANGED host_vars
    /\ UNCHANGED <<rx_task, out_task>>

\* bytes(frame)
Serialize ==
    /\ p_pc = "new" /\ p_src = "frame"
    /\ p_in' = Bytes(p_frame)
    /\ p_buf' = Bytes(p_frame)
    /\ p_pc' = "parsing"
    /\ UNCHANGED <<p_src, p_frame, p_text, p_out, p_first>>
    /\ UNCHANGED engine_vars
    /\ UNCHANGED host_vars
    /\ UNCHANGED <<rx_task, out_task>>

\* the application calls send_text(p_text)
CodecSendText ==
    /\ p_pc = "new" /\ p_src = "text"
    /\ proto' = send_text(Context(proto, 0), p_text).p
    /\ p_pc' = "queued"
    /\ UNCHANGED <<p_src, p_frame, p_text, p_in, p_buf, p_out, p_first>>
    /\ UNCHANGED <<started, wire, peer_option, rx_pc, rx_all, rx_consumed,
                   output, heard>>
    /\ UNCHANGED host_vars
    /\ UNCHANGED <<rx_task, out_task>>

\* output_stream yields the bytes of the queued message; the peer's parser
\* receives them
CodecYield ==
    /\ p_pc = "queued"
    /\ LET data == Head(proto.tn_out_queue)
           r == OutputTurn(Context([proto EXCEPT !.tn_out_queue = Tail(@)], 0), data)
       IN  /\ proto' = r.c.p
           /\ output' = Append(output, r.chunk)
           /\ p_in' = r.chunk.bytes
           /\ p_buf' = r.chunk.bytes
    /\ p_pc' = "parsing"
    /\ UNCHANGED <<p_src, p_frame, p_text, p_out, p_first>>
    /\ UNCHANGED <<started, wire, peer_option, rx_pc, rx_all, rx_consumed, heard>>
    /\ UNCHANGED host_vars
    /\ UNCHANGED <<rx_task, out_task>>

\* one parse_telnet call on the unconsumed remainder
ParseStep ==
    /\ p_pc = "parsing"
    /\ LET parsed == parse_telnet(p_buf)
       IN  /\ p_first' = IF p_out = <<>> THEN parsed ELSE p_first
           /\ IF parsed.message = None
              THEN /\ p_pc' = "done"
                   /\ UNCHANGED <<p_buf, p_out>>
              ELSE /\ p_buf' = Drop(p_buf, parsed.consumed)
                   /\ p_out' = Append(p_out, parsed.message)
                   /\ p_pc' = "parsing"
    /\ UNCHANGED <<p_src, p_frame, p_text, p_in>>
    /\ UNCHANGED engine_vars
    /\ UNCHANGED host_vars
    /\ UNCHANGED <<rx_task, out_task>>

CodecNext ==
    \/ Feed
    \/ Serialize
    \/ CodecSendText
    \/ CodecYield
    \/ ParseStep

CodecSpec == CodecInit /\ [][CodecNext]_vars

(***************************************************************************)
(* Properties of the codec.                                                *)
(***************************************************************************)
\* bytes a continuation of the input is made of
ContBytes == {IAC, SE, SGA}

\* C3: parse completeness.  When repeated parsing of a byte sequence stops,
\* the bytes left over are a suffix of the input that is empty or the
\* beginning of a frame: some continuation of the input makes parse_telnet
\* return a frame.
ParseCompleteness ==
    (p_src = "bytes" /\ p_pc = "done") =>
        /\ p_buf = Drop(p_in, Len(p_in) - Len(p_buf))
        /\ \/ p_buf = <<>>
           \/ \E cont \in SeqsUpTo(ContBytes, MaxCont) :
                parse_telnet(p_buf \o cont).message # None

\* C4: frame round trip.  The first parse_telnet call on bytes(f) returns
\* the length of bytes(f) and the frame f.
FrameRoundTrip ==
    (p_src = "frame" /\ (p_pc = "done" \/ p_out # <<>>)) =>
        p_first = [consumed |-> Len(Bytes(p_frame)), message |-> p_frame]

\* the payloads of the frames parsed so far, concatenated
ParsedData == Flatten([i \in 1..Len(p_out) |-> p_out[i].data])

\* the number of occurrences of character ch in text
RECURSIVE Count(_, _)
Count(text, ch) ==
    IF text = <<>> THEN 0
    ELSE (IF Head(text) = ch THEN 1 ELSE 0) + Count(Tail(text), ch)

\* C5: IAC round trip.  Parsing what output_stream yields for send_text(S)
\* gives Data frames only, nothing is left over, and the payloads of the
\* frames concatenated are the encoding of ensure_crlf(S): decoded, they are
\* S with a CR before every LF that had none and with every U+00FF doubled.
IacRoundTrip ==
    (p_src = "text" /\ p_pc = "done") =>
        /\ \A i \in 1..Len(p_out) : p_out[i].kind = "Data"
        /\ p_buf = <<>>
        /\ ParsedData = Encode(ensure_crlf(p_text))
        /\ Decode(ParsedData) = [ok |-> TRUE, text |-> ensure_crlf(p_text)]
        /\ LET text == Decode(ParsedData).text
           IN  /\ \A i \in 1..Len(text) : text[i] = LF => (i > 1 /\ text[i - 1] = CR)
               /\ Count(text, LF) = Count(p_text, LF)
               /\ Count(text, 255) = 2 * Count(p_text, 255)

\* a text with a bare LF and a U+00FF has been sent and parsed
IacRoundTripWitness ==
    /\ p_src = "text" /\ p_pc = "done" /\ p_out # <<>>
    /\ \E i \in 1..Len(p_text) : p_text[i] = LF /\ (i = 1 \/ p_text[i - 1] # CR)
    /\ Count(p_text, 255) > 0

(***************************************************************************)
(* Properties of the engine.                                               *)
(***************************************************************************)
\* the loop has filled the queue or the partial-line buffer as far as the
\* bounds of the runs go
Filled == Extras(proto, output) >= MaxExtra \/ Len(proto.tn_app_data) >= MaxAppData

\* C1: every receive_data call terminates: a call that is in its loop
\* reaches the iteration in which parse_telnet returns (0, None) and returns
\* (or, in these runs, fills the queue or the partial-line buffer first).
ReceiveDataTerminates == (rx_pc = "loop") ~> (rx_pc = "idle" \/ Filled)

\* C2: at every loop iteration and on return the inbound buffer holds
\* exactly the received bytes that have not been parsed into a frame: the
\* bytes received without the `consumed` bytes of the frames parsed so far.
BufferHoldsUnparsed == proto.tn_in_buffer = Drop(rx_all, rx_consumed)

\* the peer has said verb, and nothing else, about option o since start()
Answered(o, verb) ==
    /\ started
    /\ heard[o].verbs = {verb}
    /\ ~heard[o].early
    /\ ~heard[o].sb

SignalSetOnce(o) ==
    /\ proto.tn_options[o].negotiation
    /\ proto.tn_options[o].set_calls = 1

\* the receive_data call has dispatched the peer's frame more than once
Redispatched == rx_all # <<>> /\ rx_consumed > Len(rx_all)

\* the handlers that, by section 4.3 of the spec, leave the signal to the end
\* of their own subnegotiation
DeferredOptions == {CHARSET, MTTS}

\* C6: for every handler with start_local (resp. start_remote) that signals
\* on enable (every handler but those of CHARSET and MTTS), once the peer has
\* answered DO (resp. WILL) after start() the handler's signal has been set,
\* exactly once.
AcceptConvergence ==
    \A o \in DOMAIN proto.tn_options \ DeferredOptions :
        /\ (start_local(o) /\ Answered(o, DO)) => SignalSetOnce(o)
        /\ (start_remote(o) /\ Answered(o, WILL)) => SignalSetOnce(o)

\* C7: for every handler with start_local (resp. start_remote), once the
\* peer has answered DONT (resp. WONT) after start() the handler's signal
\* has been set, exactly once.
RefuseConvergence ==
    \A o \in DOMAIN proto.tn_options :
        /\ (start_local(o) /\ Answered(o, DONT)) => SignalSetOnce(o)
        /\ (start_remote(o) /\ Answered(o, WONT)) => SignalSetOnce(o)

\* the peer's DONT has been dispatched, more than once, to a handler that
\* starts the local side
RefuseConvergenceWitness ==
    \E o \in DOMAIN proto.tn_options :
        /\ start_local(o) /\ Answered(o, DONT)
        /\ Redispatched
        /\ ~proto.tn_options[o].status.local.negotiating

\* the peer has answered every offer of start() and every request that the
\* handlers of CHARSET and MTTS send when their option is enabled
OffersAnswered ==
    /\ started
    /\ \A o \in DOMAIN proto.tn_options :
         /\ start_local(o) => heard[o].verbs \cap {DO, DONT} # {}
         /\ start_remote(o) => heard[o].verbs \cap {WILL, WONT} # {}
         /\ (o \in DeferredOptions /\ heard[o].verbs \cap {DO, WILL} # {}) => heard[o].sb

AllSignalsSet == \A o \in DOMAIN proto.tn_options : proto.tn_options[o].negotiation

\* C8: when the peer has answered every offer and every request, every
\* signal that start() returned is eventually set.
SignalsComplete == OffersAnswered ~> AllSignalsSet

\* the message output_stream has taken from the queue and not yielded yet,
\* its turn being suspended in a callback
InHand == IF out_task.parked THEN <<out_task.message>> ELSE <<>>

\* the messages enqueued so far: those yielded, the one output_stream holds
\* and those in the queue
Enqueued == [i \in 1..Len(output) |-> output[i].message] \o InHand \o proto.tn_out_queue

RECURSIVE Select(_, _)
Select(messages, o) ==
    IF messages = <<>> THEN <<>>
    ELSE (IF Head(messages).kind = "Negotiate" /\ Head(messages).option = o
          THEN <<Head(messages)>> ELSE <<>>) \o Select(Tail(messages), o)

\* the replies the frames in the received bytes ask for, for an option o
\* without a handler: DONT o for each WILL o and WONT o for each DO o
RECURSIVE RepliesDue(_, _)
RepliesDue(bytes, o) ==
    LET parsed == parse_telnet(bytes)
        message == parsed.message
    IN  IF message = None THEN <<>>
        ELSE (IF message.kind = "Negotiate" /\ message.option = o
                 /\ message.command \in {WILL, DO}
              THEN <<TelnetNegotiate(IF message.command = WILL THEN DONT ELSE WONT, o)>>
              ELSE <<>>) \o RepliesDue(Drop(bytes, parsed.consumed), o)

\* C9: for an option X without a handler the engine enqueues exactly DONT X
\* for a WILL X received and WONT X for a DO X received, nothing for WONT X
\* and DONT X, and changes no handler and no capability.
PoliteRefusal ==
    \A X \in PeerOptions \ (DOMAIN proto.tn_options \cup {NULL}) :
        /\ Len(Select(Enqueued, X)) <= Len(RepliesDue(rx_all, X))
        /\ Select(Enqueued, X) = Take(RepliesDue(rx_all, X), Len(Select(Enqueued, X)))
        /\ peer_option = X =>
              /\ proto.capabilities = MudClientCapabilities
              /\ \A o \in DOMAIN proto.tn_options :
                    /\ ~proto.tn_options[o].negotiation
                    /\ ~proto.tn_options[o].status.local.enabled
                    /\ ~proto.tn_options[o].status.remote.enabled

\* the chunks of the output that serialize the frame IAC SB 86 IAC SE
Mccp2Marks ==
    {i \in 1..Len(output) : output[i].message = TelnetSubNegotiate(MCCP2, <<>>)}

\* C10: in what output_stream has yielded, the first IAC SB 86 IAC SE and
\* every chunk before it are plain bytes, and every chunk after it has gone
\* through the MCCP2 compressor, as the next piece of its one stream.
Mccp2Boundary ==
    \A i \in 1..Len(output) :
        IF \E m \in Mccp2Marks : m < i
        THEN LET first == CHOOSE m \in Mccp2Marks : \A n \in Mccp2Marks : m <= n
             IN  output[i].z = <<i - first - 1>>
        ELSE output[i].z = <<>>

\* a frame of start(), then IAC SB 86 IAC SE, then text sent by the
\* application have been yielded
Mccp2BoundaryWitness ==
    \E m \in Mccp2Marks :
        /\ m > 1
        /\ \E i \in (m + 1)..Len(output) :
              output[i].message.kind = "Data" /\ output[i].z # <<>>

(***************************************************************************)
(* Properties of the inbound transformer chain.                            *)
(***************************************************************************)
\* the subnegotiation that activates MCCP3, as the peer sends it
Mccp3Activation == Bytes(TelnetSubNegotiate(MCCP3, <<>>))

\* C11: when the loop of receive_data has dispatched the activating MCCP3
\* subnegotiation, and before it parses the next frame, the inbound buffer
\* holds the inflated form of the bytes received behind the subnegotiation,
\* and no byte of the deflate stream.
Mccp3Boundary ==
    (/\ rx_pc = "loop"
     /\ Len(trace) = 1
     /\ trace[1].message = TelnetSubNegotiate(MCCP3, <<>>)
     /\ ~trace[1].raised
     /\ StartsWith(rx_all, Mccp3Activation))
    => /\ Decompress(NewInflater, Drop(rx_all, Len(Mccp3Activation))).ok
       /\ proto.tn_in_buffer = Decompress(NewInflater, Drop(rx_all, Len(Mccp3Activation))).data

\* C12: the bytes a receive_data call appends to the inbound buffer are what
\* the chain of installed inbound transformers, applied in insertion order,
\* returns for the bytes passed to the call.
InboundChain ==
    [][rx_all' # rx_all =>
         LET data == Take(wire, Len(wire) - Len(wire'))
             in_data == TransformIn(Context(proto, 0), 1, data)
         IN  /\ rx_all' = rx_all \o in_data.data
             /\ proto'.tn_in_buffer = proto.tn_in_buffer \o in_data.data]_vars

(***************************************************************************)
(* Properties of the output stream.                                        *)
(***************************************************************************)
\* C13: whatever step is taken, the frames enqueued so far stay what they
\* were, in their order, each either yielded or still queued, and new frames
\* come behind them: output_stream yields the frames in the order they were
\* enqueued, each once, dropping and reordering none.
FifoOutput == [][StartsWith(Enqueued', Enqueued)]_vars

(***************************************************************************)
(* Properties of the dispatch of received frames.                          *)
(***************************************************************************)
\* the application bytes in a received byte sequence: the payloads of its
\* Data frames, in order
RECURSIVE AppData(_)
AppData(bytes) ==
    LET parsed == parse_telnet(bytes)
    IN  IF parsed.message = None THEN <<>>
        ELSE (IF parsed.message.kind = "Data" THEN parsed.message.data ELSE <<>>)
             \o AppData(Drop(bytes, parsed.consumed))

\* the lines of application bytes: for each LF the bytes since the previous
\* LF without the CR LF at their end, as text
RECURSIVE LinesOf(_)
LinesOf(data) ==
    LET pos == Find(data, LF)
        raw == Take(data, pos - 1)
        line == IF raw # <<>> /\ raw[Len(raw)] = CR THEN Take(raw, Len(raw) - 1) ELSE raw
    IN  IF pos = 0 THEN <<>>
        ELSE <<DecodeIgnore(line)>> \o LinesOf(Drop(data, pos))

\* the bytes behind the last LF
RECURSIVE AfterLastLf(_)
AfterLastLf(data) ==
    IF Find(data, LF) = 0 THEN data ELSE AfterLastLf(Drop(data, Find(data, LF)))

\* the callbacks the dispatches of the trace invoked, in order
Fired == Flatten([i \in 1..Len(trace) |-> trace[i].fired])

IsLine(f) == f.name = "line"

\* the lines the line callback was invoked with, in order
FiredLines ==
    [i \in 1..Len(SelectSeq(Fired, IsLine)) |-> SelectSeq(Fired, IsLine)[i].args[1]]

\* the host has handed frames to the engine through receive_data only, and
\* the dispatch of none is suspended in a callback
ReceivedOnly ==
    /\ traced
    /\ ~rx_task.parked
    /\ \A i \in 1..Len(trace) : ~trace[i].direct

\* C14: for the Data frames received, the line callback has fired at most
\* once per LF, in order, with the bytes since the previous LF without
\* their CR LF; the partial-line buffer holds no LF; and when receive_data
\* has returned, one line has fired per LF and the partial-line buffer
\* holds the bytes behind the last LF.
LineFraming ==
    ReceivedOnly =>
        /\ StartsWith(LinesOf(AppData(rx_all)), FiredLines)
        /\ Find(proto.tn_app_data, LF) = 0
        /\ (rx_pc = "idle" /\ \A i \in 1..Len(trace) : ~trace[i].raised)
             => /\ FiredLines = LinesOf(AppData(rx_all))
                /\ proto.tn_app_data = AfterLastLf(AppData(rx_all))

(***************************************************************************)
(* Properties of send_text.                                                *)
(***************************************************************************)
\* text with CR LF for every LF that no CR precedes and every U+00FF
\* doubled, every other character kept
Canonical(text) ==
    Flatten([i \in 1..Len(text) |->
        IF text[i] = LF /\ (i = 1 \/ text[i - 1] # CR) THEN <<CR, LF>>
        ELSE IF text[i] = 255 THEN <<255, 255>>
        ELSE <<text[i]>>])

\* the same, a CR that comes right after a CR being left out
CanonicalOneCr(text) ==
    Flatten([i \in 1..Len(text) |->
        IF text[i] = LF /\ (i = 1 \/ text[i - 1] # CR) THEN <<CR, LF>>
        ELSE IF text[i] = 255 THEN <<255, 255>>
        ELSE IF text[i] = CR /\ i > 1 /\ text[i - 1] = CR THEN <<>>
        ELSE <<text[i]>>])

\* C15 as stated: send_text(S) enqueues exactly one Data frame, and its
\* content is S with CR LF for every LF not preceded by CR and every 0xFF
\* doubled, every other character unchanged and in place.
SendTextContent ==
    (p_src = "text" /\ p_pc = "queued")
    => proto.tn_out_queue = <<TelnetData(Encode(Canonical(p_text)))>>

\* C15: send_text(S) enqueues exactly one Data frame, and its content is
\* the UTF-8 encoding of S with CR LF for every LF not preceded by CR, every
\* U+00FF doubled, and every CR that comes right after a CR removed; every
\* other character is kept in place.
SendTextContentAmended ==
    (p_src = "text" /\ p_pc = "queued")
    => proto.tn_out_queue = <<TelnetData(Encode(CanonicalOneCr(p_text)))>>

\* a text with a run of CRs before an LF has been sent
SendTextContentWitness ==
    /\ p_src = "text" /\ p_pc = "queued"
    /\ p_text = <<CR, CR, LF>>
    /\ proto.tn_out_queue = <<TelnetData(<<CR, LF>>)>>

(***************************************************************************)
(* Properties of start().                                                  *)
(***************************************************************************)
\* the offers of the handler of option o
Offers(o) ==
    (IF start_local(o) THEN <<TelnetNegotiate(WILL, o)>> ELSE <<>>)
    \o (IF start_remote(o) THEN <<TelnetNegotiate(DO, o)>> ELSE <<>>)

\* C16: a start() call appends to the outbound queue, handler by handler,
\* IAC WILL opt for a handler with start_local and IAC DO opt for one with
\* start_remote and nothing for a handler with neither; it sets
\* local.negotiating resp. remote.negotiating of exactly these handlers,
\* sets no completion signal, and returns one signal per handler.
StartOffers ==
    [][(~started /\ started') =>
         LET order == OptionOrder(proto.supported_options, {})
         IN  /\ proto'.tn_out_queue =
                   proto.tn_out_queue \o Flatten([i \in 1..Len(order) |-> Offers(order[i])])
             /\ \A o \in DOMAIN proto.tn_options :
                   /\ proto'.tn_options[o].status.local.negotiating =
                        (start_local(o) \/ proto.tn_options[o].status.local.negotiating)
                   /\ proto'.tn_options[o].status.remote.negotiating =
                        (start_remote(o) \/ proto.tn_options[o].status.remote.negotiating)
                   /\ proto'.tn_options[o].negotiation = proto.tn_options[o].negotiation
                   /\ proto'.tn_options[o].set_calls = proto.tn_options[o].set_calls
             /\ Len(StartReturn(Context(proto, 0))) = Cardinality(DOMAIN proto.tn_options)
             /\ Range(StartReturn(Context(proto, 0))) = DOMAIN proto.tn_options]_vars

\* start() has run on an engine with all handlers: the offers are queued,
\* a handler with start_local and one with start_remote are negotiating, a
\* handler with neither is not, and no signal is set
StartOffersWitness ==
    /\ started
    /\ rx_all = <<>>
    /\ proto.supported_options = ALL_OPTIONS
    /\ proto.tn_out_queue = Flatten([i \in 1..Len(ALL_OPTIONS) |-> Offers(ALL_OPTIONS[i])])
    /\ proto.tn_options[SGA].status.local.negotiating
    /\ proto.tn_options[NAWS].status.remote.negotiating
    /\ ~proto.tn_options[TELOPT_EOR].status.local.negotiating
    /\ ~proto.tn_options[TELOPT_EOR].status.remote.negotiating
    /\ \A o \in DOMAIN proto.tn_options : ~proto.tn_options[o].negotiation

(***************************************************************************)
(* Properties of the completion signals.                                   *)
(***************************************************************************)
\* C17: a completion signal that is set stays set, whatever the step: no
\* start, dispatch or receive_data call clears it.
SignalMonotonic ==
    [][\A o \in DOMAIN proto.tn_options :
         proto.tn_options[o].negotiation => proto'.tn_options[o].negotiation]_vars

\* the peer has accepted an option, which set the signal, and has then
\* turned the option off again: the signal is still set
SignalMonotonicWitness ==
    /\ Len(trace) = 2
    /\ trace[1].message = TelnetNegotiate(DO, SGA)
    /\ trace[2].message = TelnetNegotiate(DONT, SGA)
    /\ ~trace[2].raised
    /\ SGA \in DOMAIN proto.tn_options
    /\ ~proto.tn_options[SGA].status.local.enabled
    /\ proto.tn_options[SGA].negotiation

(***************************************************************************)
(* Properties of the capability changes.                                   *)
(***************************************************************************)
IsChange(f) == f.name = "change_capabilities"

\* the (key, value) pairs the change_capabilities callback was invoked
\* with in a dispatch, in order
ChangesFired(entry) ==
    [i \in 1..Len(SelectSeq(entry.fired, IsChange)) |->
        SelectSeq(entry.fired, IsChange)[i].args]

\* a host callback raised in the dispatch
CallbackRaised(entry) == entry.fail /\ entry.fired # <<>>

\* C18: in every dispatch in which no host callback raises, the
\* change_capabilities callback has fired exactly once for each item of the
\* change maps the handlers passed, with (key, value) and in map order, and
\* each of these keys names a capability field holding a value set for it.
ChangesNotified ==
    \A i \in 1..Len(trace) :
        ~CallbackRaised(trace[i]) =>
            /\ ChangesFired(trace[i]) = trace[i].asked
            /\ \A j \in 1..Len(trace[i].asked) :
                  trace[i].asked[j][1] \in DOMAIN MudClientCapabilities

(***************************************************************************)
(* Properties of the subnegotiation payload.                               *)
(***************************************************************************)
\* a wire payload in which every IAC is doubled
RECURSIVE WellEscaped(_)
WellEscaped(payload) ==
    \/ payload = <<>>
    \/ Head(payload) # IAC /\ WellEscaped(Tail(payload))
    \/ /\ Len(payload) >= 2
       /\ payload[1] = IAC /\ payload[2] = IAC
       /\ WellEscaped(Drop(payload, 2))

\* the payload with every IAC IAC collapsed to one 0xFF
RECURSIVE Collapse(_)
Collapse(payload) ==
    IF payload = <<>> THEN <<>>
    ELSE IF Len(payload) >= 2 /\ payload[1] = IAC /\ payload[2] = IAC
    THEN <<IAC>> \o Collapse(Drop(payload, 2))
    ELSE <<Head(payload)>> \o Collapse(Tail(payload))

\* C19: for the wire sequence IAC SB opt payload IAC SE, with every IAC of
\* the payload doubled, parse_telnet consumes the whole sequence and
\* returns the SubNegotiate frame of opt whose payload is the wire payload
\* with every IAC IAC collapsed to a single 0xFF.
SubnegUnescape ==
    (/\ p_src = "frame" /\ p_frame.kind = "SubNegotiate"
     /\ WellEscaped(p_frame.data)
     /\ p_pc \in {"parsing", "done"}
     /\ (p_out # <<>> \/ p_pc = "done"))
    => p_first = [consumed |-> Len(p_in),
                  message |-> TelnetSubNegotiate(p_frame.option, Collapse(p_frame.data))]

(***************************************************************************)
(* Properties of a failing host callback.                                  *)
(***************************************************************************)
\* the frames in a received byte sequence, in order
RECURSIVE FramesOf(_)
FramesOf(bytes) ==
    LET parsed == parse_telnet(bytes)
    IN  IF parsed.message = None THEN <<>>
        ELSE <<parsed.message>> \o FramesOf(Drop(bytes, parsed.consumed))

\* C20: when a host callback has raised in the dispatch of the i-th frame
\* received, the dispatches of the later receive_data calls are those of
\* the frames received behind it, each once and in order: the failing frame
\* is not dispatched again.
FailedFrameSkipped ==
    ReceivedOnly =>
        \A i \in 1..Len(trace) :
            (trace[i].raised /\ CallbackRaised(trace[i])
             /\ \A h \in 1..(i - 1) : trace[h].message = FramesOf(rx_all)[h])
            => \A j \in (i + 1)..Len(trace) :
                   /\ j <= Len(FramesOf(rx_all))
                   /\ trace[j].message = FramesOf(rx_all)[j]

(***************************************************************************)
(* Properties of the MCCP3 inflater.                                       *)
(***************************************************************************)
\* C21: a receive_data call in which the MCCP3 inflater fails on the
\* inbound bytes (nothing is appended to the buffer) removes the inflater
\* from the inbound transformer chain, sets mccp3_enabled to false and
\* enqueues IAC WONT 87.
InflaterFailure ==
    [][(wire' # wire /\ rx_all' = rx_all) =>
         /\ MCCP3 \notin Range(proto'.in_transformers)
         /\ ~proto'.capabilities.mccp3_enabled
         /\ proto'.tn_out_queue =
              Append(proto.tn_out_queue, TelnetNegotiate(WONT, MCCP3))]_vars

(***************************************************************************)
(* Properties of the negotiation state machine of a handler.               *)
(***************************************************************************)
\* A step in which the dispatch of a frame (or a call of the script) ends.
\* The dispatch may have been suspended in callbacks; no other task has
\* changed the engine meanwhile.
Dispatched == Len(trace') = Len(trace) + 1 /\ ~trace'[Len(trace')].torn

\* the engine on which the dispatch that ends in the step began
Before == IF rx_task.parked THEN rx_task.pre ELSE proto

\* the frame dispatched in the step
Message == trace'[Len(trace')].message

\* the frame dispatched in the step is IAC verb o for a handler o
Negotiated(verb, o) ==
    /\ Dispatched
    /\ Message = TelnetNegotiate(verb, o)
    /\ o \in DOMAIN Before.tn_options

\* C22: a handler that receives WILL without support_remote enqueues DONT
\* for its option, one that receives DO without support_local enqueues
\* WONT for its option, and in both cases the flags and the signal of the
\* handler stay as they are.
RefuseUnsupported ==
    [][\A o \in PeerOptions :
         /\ (Negotiated(WILL, o) /\ ~support_remote(o))
              => /\ proto'.tn_out_queue =
                       Append(Before.tn_out_queue, TelnetNegotiate(DONT, o))
                 /\ proto'.tn_options = Before.tn_options
         /\ (Negotiated(DO, o) /\ ~support_local(o))
              => /\ proto'.tn_out_queue =
                       Append(Before.tn_out_queue, TelnetNegotiate(WONT, o))
                 /\ proto'.tn_options = Before.tn_options]_vars

\* the context in which the enable hook of a side runs when the frame of the
\* step is handled: enabled is set and reply is enqueued iff the side was
\* not negotiating
Enabling(o, side, reply) ==
    LET entry == trace'[Len(trace')]
        c == Context(Before, IF entry.fail THEN Len(entry.fired) ELSE 0)
        c1 == [c EXCEPT !.p.tn_options[o].status[side].enabled = TRUE]
    IN  IF Before.tn_options[o].status[side].negotiating THEN c1
        ELSE QueuePut(c1, TelnetNegotiate(reply, o))

\* the step left the engine as the context c has it
Result(c) ==
    /\ proto'.tn_options = c.p.tn_options
    /\ proto'.tn_out_queue = c.p.tn_out_queue
    /\ proto'.capabilities = c.p.capabilities
    /\ trace'[Len(trace')].fired = c.fired

\* C23: on WILL (resp. DO) for a supported side that is not enabled the
\* handler sets enabled, enqueues the reply DO (resp. WILL) iff the side
\* was not negotiating, and runs at_remote_enable (resp. at_local_enable)
\* once.
EnableOnce ==
    [][\A o \in PeerOptions :
         /\ (/\ Negotiated(WILL, o) /\ support_remote(o)
             /\ ~Before.tn_options[o].status.remote.enabled)
              => /\ proto'.tn_options[o].status.remote.enabled
                 /\ Result(at_remote_enable(Enabling(o, "remote", DO), o))
         /\ (/\ Negotiated(DO, o) /\ support_local(o)
             /\ ~Before.tn_options[o].status.local.enabled)
              => /\ proto'.tn_options[o].status.local.enabled
                 /\ Result(at_local_enable(Enabling(o, "local", WILL), o))]_vars

\* the engine has offered NAWS and the peer's WILL has been handled: the
\* side is enabled and the queue holds the offer and no reply
EnableOnceWitness ==
    /\ started
    /\ Len(trace) = 1
    /\ trace[1].message = TelnetNegotiate(WILL, NAWS)
    /\ proto.supported_options = <<NAWS>>
    /\ proto.tn_options[NAWS].status.remote.enabled
    /\ proto.tn_options[NAWS].negotiation
    /\ proto.tn_out_queue = <<TelnetNegotiate(DO, NAWS)>>

\* C24: once a reply of the peer to the offer of a side has been handled
\* (WILL or WONT for the remote side, DO or DONT for the local side, after
\* start()), that side is not negotiating.
OfferSettled ==
    \A o \in DOMAIN proto.tn_options :
        /\ heard[o].verbs \cap {WILL, WONT} # {}
             => ~proto.tn_options[o].status.remote.negotiating
        /\ heard[o].verbs \cap {DO, DONT} # {}
             => ~proto.tn_options[o].status.local.negotiating

\* the handler of o after a refusal that found the side enabled: the side
\* is off and no longer negotiating, and the signal has been set if the
\* side was negotiating (the reject hook)
Disabled(o, side) ==
    LET c == Context(Before, 0)
        off == [c EXCEPT !.p.tn_options[o].status[side].enabled = FALSE,
                         !.p.tn_options[o].status[side].negotiating = FALSE]
    IN  IF Before.tn_options[o].status[side].negotiating
        THEN NegotiationSet(off, o).p.tn_options[o]
        ELSE off.p.tn_options[o]

\* the side of handler o is neither enabled nor negotiating
Quiet(o, side) ==
    /\ ~Before.tn_options[o].status[side].enabled
    /\ ~Before.tn_options[o].status[side].negotiating

\* the step enqueued nothing and left every handler but that of o, and the
\* capabilities, as they were
NoReply(o) ==
    /\ proto'.tn_out_queue = Before.tn_out_queue
    /\ proto'.capabilities = Before.capabilities
    /\ trace'[Len(trace')].fired = <<>>
    /\ \A q \in DOMAIN Before.tn_options \ {o} :
           proto'.tn_options[q] = Before.tn_options[q]

\* C25: on WONT (resp. DONT) for an enabled side the handler sets enabled
\* to false and enqueues no reply; on WONT or DONT for a side that is
\* neither enabled nor negotiating nothing changes and nothing is enqueued.
DisableQuietly ==
    [][\A o \in PeerOptions :
         /\ (Negotiated(WONT, o) /\ Before.tn_options[o].status.remote.enabled)
              => /\ proto'.tn_options[o] = Disabled(o, "remote")
                 /\ NoReply(o)
         /\ (Negotiated(DONT, o) /\ Before.tn_options[o].status.local.enabled)
              => /\ proto'.tn_options[o] = Disabled(o, "local")
                 /\ NoReply(o)
         /\ (Negotiated(WONT, o) /\ Quiet(o, "remote"))
              => /\ proto'.tn_options[o] = Before.tn_options[o]
                 /\ NoReply(o)
         /\ (Negotiated(DONT, o) /\ Quiet(o, "local"))
              => /\ proto'.tn_options[o] = Before.tn_options[o]
                 /\ NoReply(o)]_vars

\* the peer has turned NAWS on and off again: WILL was answered with DO,
\* WONT with nothing, and the side is off
DisableQuietlyWitness ==
    /\ ~started
    /\ Len(trace) = 2
    /\ trace[1].message = TelnetNegotiate(WILL, NAWS)
    /\ trace[2].message = TelnetNegotiate(WONT, NAWS)
    /\ ~proto.tn_options[NAWS].status.remote.enabled
    /\ proto.tn_out_queue = <<TelnetNegotiate(DO, NAWS)>>

\* C26: the frames receive_data has dispatched are the first frames of the
\* inbound byte stream, each once and in the order they occur in it.
InParseOrder ==
    ReceivedOnly =>
        /\ Len(trace) <= Len(FramesOf(rx_all))
        /\ \A i \in 1..Len(trace) : trace[i].message = FramesOf(rx_all)[i]

\* the number of frames equal to frame in the sequence queue
Copies(queue, frame) == Len(SelectSeq(queue, LAMBDA m : m = frame))

\* C27: whatever the peer sends, the outbound queue (which nothing drains
\* here) holds at most three SEND probes of the MTTS handler.
AtMostThreeProbes ==
    Copies(proto.tn_out_queue, TelnetSubNegotiate(MTTS, <<1>>)) <= 3

\* the frame is an MTTS IS reply
IsReply(frame) ==
    /\ frame.kind = "SubNegotiate"
    /\ frame.option = MTTS
    /\ Len(frame.data) >= 1
    /\ frame.data[1] = 0

\* the host dispatches an MTTS IS reply to the enabled MTTS handler directly
\* behind a dispatch of an IS reply with the same text
RepeatedReply ==
    /\ Dispatched
    /\ MTTS \in DOMAIN Before.tn_options
    /\ Before.tn_options[MTTS].status.remote.enabled
    /\ trace # <<>>
    /\ IsReply(Message)
    /\ trace'[Len(trace')].direct
    /\ trace[Len(trace)].direct
    /\ ~trace[Len(trace)].raised
    /\ trace[Len(trace)].message = Message

\* C28: an MTTS IS reply with the text of the immediately preceding IS
\* reply sets the completion signal, leaves the stage and the capabilities
\* as they are and sends no probe.
RepeatCompletes ==
    [][RepeatedReply =>
         /\ proto'.tn_options[MTTS].negotiation
         /\ proto'.tn_options[MTTS].number_requests
              = Before.tn_options[MTTS].number_requests
         /\ proto'.capabilities = Before.capabilities
         /\ proto'.tn_out_queue = Before.tn_out_queue]_vars

\* the host dispatches the third MTTS reply, IS "MTTS <n>", and no host
\* callback fails
StandardReply ==
    /\ Dispatched
    /\ MTTS \in DOMAIN Before.tn_options
    /\ Before.tn_options[MTTS].number_requests = 3
    /\ IsReply(Message)
    /\ StartsWith(Tail(Message.data), <<77, 84, 84, 83, 32>>)
    /\ ParseInt(SplitFirst(Tail(Message.data), 32)[2]).ok
    /\ ~trace'[Len(trace')].fail

\* C29: the third MTTS reply IS "MTTS <n>" is handled without an error and
\* sets the completion signal, and for n = 2349 it leaves color = 3,
\* encoding utf-8 and osc_color_palette true.
StandardApplied ==
    [][StandardReply =>
         /\ ~trace'[Len(trace')].raised
         /\ proto'.tn_options[MTTS].negotiation
         /\ Tail(Message.data) = TextMtts2349
              => /\ proto'.capabilities.color = 3
                 /\ proto'.capabilities.encoding = TextUtf8
                 /\ proto'.capabilities.osc_color_palette]_vars

\* the CHARSET REQUEST subnegotiation
CharsetRequest ==
    TelnetSubNegotiate(CHARSET, <<1>> \o <<32, 97, 115, 99, 105, 105, 32, 117, 116, 102, 45, 56>>)

\* the peer has sent WILL 42 or DO 42
CharsetTurnedOn ==
    \E i \in 1..Len(trace) :
        trace[i].message \in {TelnetNegotiate(WILL, CHARSET), TelnetNegotiate(DO, CHARSET)}

\* C30: whatever WILL, DO, WONT and DONT 42 the peer has sent, the outbound
\* queue (which nothing drains here) holds the CHARSET REQUEST once if a
\* side of CHARSET has been enabled, and not at all before the first enable.
CharsetRequestedOnce ==
    CHARSET \in DOMAIN proto.tn_options =>
        Copies(proto.tn_out_queue, CharsetRequest) = IF CharsetTurnedOn THEN 1 ELSE 0

\* the peer has turned the remote side of CHARSET on, off and on again: the
\* queue holds a reply DO for each WILL and one REQUEST, sent with the first
CharsetRequestedOnceWitness ==
    /\ ~started
    /\ Len(trace) = 3
    /\ trace[1].message = TelnetNegotiate(WILL, CHARSET)
    /\ trace[2].message = TelnetNegotiate(WONT, CHARSET)
    /\ trace[3].message = TelnetNegotiate(WILL, CHARSET)
    /\ proto.tn_options[CHARSET].status.remote.enabled
    /\ proto.tn_out_queue = <<TelnetNegotiate(DO, CHARSET), CharsetRequest,
                              TelnetNegotiate(DO, CHARSET)>>

\* the step dispatches a subnegotiation of option o to its handler and no
\* host callback raises in it
Subnegotiated(o) ==
    /\ Dispatched
    /\ o \in DOMAIN Before.tn_options
    /\ Message.kind = "SubNegotiate"
    /\ Message.option = o
    /\ ~CallbackRaised(trace'[Len(trace')])

\* C31: a CHARSET subnegotiation with first byte 0x02 and a name behind it
\* sets capabilities.encoding to the text of bytes 1..end and sets the
\* completion signal of CHARSET; any other CHARSET subnegotiation changes
\* neither the encoding nor the signal.
CharsetAccepted ==
    [][Subnegotiated(CHARSET) =>
         IF Len(Message.data) >= 2 /\ Message.data[1] = 2
         THEN /\ proto'.capabilities.encoding = DecodeIgnore(Tail(Message.data))
              /\ proto'.tn_options[CHARSET].negotiation
         ELSE /\ proto'.capabilities.encoding = Before.capabilities.encoding
              /\ proto'.tn_options[CHARSET].negotiation
                   = Before.tn_options[CHARSET].negotiation]_vars

\* C32: a NAWS subnegotiation with a payload of four bytes b0 b1 b2 b3 sets
\* width = 256*b0 + b1 and height = 256*b2 + b3, whatever they were before;
\* one with a shorter payload changes no capability and enqueues nothing.
NawsSize ==
    [][Subnegotiated(NAWS) =>
         LET data == Message.data
         IN  /\ Len(data) = 4
                  => /\ proto'.capabilities.width = 256 * data[1] + data[2]
                     /\ proto'.capabilities.height = 256 * data[3] + data[4]
             /\ Len(data) < 4
                  => /\ proto'.capabilities = Before.capabilities
                     /\ proto'.tn_out_queue = Before.tn_out_queue]_vars

\* the peer has reported two sizes and the second has replaced the first
NawsSizeWitness ==
    /\ Len(trace) = 2
    /\ trace[1].message = TelnetSubNegotiate(NAWS, <<0, 80, 0, 24>>)
    /\ trace[2].message = TelnetSubNegotiate(NAWS, <<1, 4, 0, 50>>)
    /\ ~trace[1].raised /\ ~trace[2].raised
    /\ proto.capabilities.width = 260
    /\ proto.capabilities.height = 50

\* the bytes are a whole frame and f is the frame they encode
Complete(f, bytes) ==
    CASE f.kind = "Data" ->
             \/ bytes = <<IAC, IAC>> /\ f.data = <<IAC>>
             \/ bytes # <<>> /\ IAC \notin Range(bytes) /\ f.data = bytes
      [] f.kind = "Negotiate" ->
             /\ f.command \in {WILL, WONT, DO, DONT}
             /\ bytes = <<IAC, f.command, f.option>>
      [] f.kind = "SubNegotiate" ->
             /\ Len(bytes) >= 5
             /\ Take(bytes, 3) = <<IAC, SB, f.option>>
             /\ Drop(bytes, Len(bytes) - 2) = <<IAC, SE>>
             /\ f.data = SubSeq(bytes, 4, Len(bytes) - 2)
      [] f.kind = "Command" ->
             /\ f.command \notin {IAC, WILL, WONT, DO, DONT, SB}
             /\ bytes = <<IAC, f.command>>
      [] OTHER -> FALSE

\* the bytes are an incomplete sequence: a lone IAC, IAC and a verb without
\* the option, or the beginning of an IAC SB block with no IAC SE in it
Incomplete(bytes) ==
    \/ bytes = <<IAC>>
    \/ Len(bytes) = 2 /\ bytes[1] = IAC /\ bytes[2] \in {WILL, WONT, DO, DONT}
    \/ /\ Len(bytes) >= 2 /\ bytes[1] = IAC /\ bytes[2] = SB
       /\ \A i \in 1..(Len(bytes) - 1) : ~(bytes[i] = IAC /\ bytes[i + 1] = SE)

\* C33: a parse_telnet call on the buffer either returns (0, None), and
\* then the caller has no frame and the buffer is as it was, or returns
\* (n, frame) with 1 <= n <= len(buffer), where the first n bytes are a
\* whole frame and the buffer behind them is untouched; on an incomplete
\* sequence it returns no frame.
ParseIsStep ==
    [][p_pc = "parsing" =>
         /\ \/ p_out' = p_out /\ p_buf' = p_buf
            \/ /\ Len(p_out') = Len(p_out) + 1
               /\ LET n == Len(p_buf) - Len(p_buf')
                  IN  /\ 1 <= n /\ n <= Len(p_buf)
                      /\ p_buf' = Drop(p_buf, n)
                      /\ Complete(p_out'[Len(p_out')], Take(p_buf, n))
         /\ Incomplete(p_buf) => p_out' = p_out]_vars

\* the parser has returned a Data frame for the byte in front of an IAC and
\* a verb, and then (0, None) for the verb without its option
ParseIsStepWitness ==
    /\ p_src = "bytes"
    /\ p_pc = "done"
    /\ p_in = <<65, IAC, WILL>>
    /\ p_out = <<TelnetData(<<65>>)>>
    /\ p_buf = <<IAC, WILL>>

\* the engines that handling the frames one after the other, each once and
\* with callbacks that return, leaves of the engines ps
RECURSIVE RunFrames(_, _)
RunFrames(ps, frames) ==
    IF frames = <<>> THEN ps
    ELSE RunFrames(UNION {{c.p : c \in _tn_at_telnet_message(Context(p, 0),
                                                            Head(frames))} : p \in ps},
                   Tail(frames))

\* the engine is, in its handlers, capabilities, outbound queue and
\* partial-line buffer, as the engine p
SameEngine(p) ==
    /\ proto.tn_options = p.tn_options
    /\ proto.capabilities = p.capabilities
    /\ proto.tn_out_queue = p.tn_out_queue
    /\ proto.tn_app_data = p.tn_app_data

\* C34: whatever the chunks the stream came in, an engine that has been fed
\* through receive_data only, without start(), without a raising callback
\* and without an inflater, is in a state that handling the first k frames
\* of the whole stream once each, in order, produces, for some k, from the
\* engine as the host constructed it (no handler writes capabilities.gmcp).
ChunkingInvariance ==
    (/\ ReceivedOnly
     /\ ~started
     /\ proto.in_transformers = <<>>
     /\ \A i \in 1..Len(trace) : ~trace[i].raised)
    => \E k \in 0..Len(FramesOf(rx_all)) :
           \E p \in RunFrames({[MudTelnetProtocol(proto.supported_options, proto.callbacks)
                                    EXCEPT !.capabilities.gmcp = proto.capabilities.gmcp]},
                              Take(FramesOf(rx_all), k)) :
               SameEngine(p)

\* the negotiation frames the step has put on the outbound queue
Replies ==
    SelectSeq(SubSeq(proto'.tn_out_queue, Len(Before.tn_out_queue) + 1,
                     Len(proto'.tn_out_queue)),
              LAMBDA m : m.kind = "Negotiate")

\* the verb asks a supported side of handler o for the state it is in
Redundant(verb, o) ==
    \/ verb = WILL /\ support_remote(o) /\ Before.tn_options[o].status.remote.enabled
    \/ verb = DO /\ support_local(o) /\ Before.tn_options[o].status.local.enabled
    \/ verb = WONT /\ support_remote(o) /\ ~Before.tn_options[o].status.remote.enabled
    \/ verb = DONT /\ support_local(o) /\ ~Before.tn_options[o].status.local.enabled

\* C35: a handler that is given a verb leaves what was queued in place and
\* enqueues at most one negotiation frame, for its own option, and none
\* when the verb asks a supported side for the state it is already in.
NoNegotiationLoop ==
    [][\A o \in PeerOptions : \A verb \in {WILL, WONT, DO, DONT} :
         Negotiated(verb, o) =>
             /\ Len(proto'.tn_out_queue) >= Len(Before.tn_out_queue)
             /\ Take(proto'.tn_out_queue, Len(Before.tn_out_queue)) = Before.tn_out_queue
             /\ Len(Replies) <= 1
             /\ \A i \in 1..Len(Replies) : Replies[i].option = o
             /\ Redundant(verb, o) => Replies = <<>>]_vars

\* the peer has sent WILL NAWS twice: the first was answered with DO, the
\* second with nothing
NoNegotiationLoopWitness ==
    /\ ~started
    /\ Len(trace) = 2
    /\ trace[1].message = TelnetNegotiate(WILL, NAWS)
    /\ trace[2].message = TelnetNegotiate(WILL, NAWS)
    /\ ~trace[1].raised
    /\ proto.tn_options[NAWS].status.remote.enabled
    /\ proto.tn_out_queue = <<TelnetNegotiate(DO, NAWS)>>

\* C36: the MCCP3 inflater is installed, and mccp3_enabled true, only if
\* the peer's DO 87 has been handled, so that capabilities.mccp3 is true.
Mccp3Negotiated ==
    MCCP3 \in DOMAIN proto.tn_options =>
        ((MCCP3 \in Range(proto.in_transformers) \/ proto.capabilities.mccp3_enabled)
            => proto.capabilities.mccp3)

\* C37: the capability flags naws and mtts are true only while the remote
\* side of their option is enabled, and mssp, mccp2 and mccp3 only while the
\* local side of theirs is.
FlagsFollowSides ==
    /\ \A o \in DOMAIN proto.tn_options \cap {NAWS, MTTS} :
           proto.capabilities[IF o = NAWS THEN "naws" ELSE "mtts"]
               => proto.tn_options[o].status.remote.enabled
    /\ \A o \in DOMAIN proto.tn_options \cap {MSSP, MCCP2, MCCP3} :
           proto.capabilities[CASE o = MSSP -> "mssp" [] o = MCCP2 -> "mccp2"
                                [] OTHER -> "mccp3"]
               => proto.tn_options[o].status.local.enabled

\* the peer has sent a negotiation verb for option o
VerbSeen(o) ==
    \E i \in 1..Len(trace) :
        trace[i].message.kind = "Negotiate" /\ trace[i].message.option = o

\* C38: the completion signal of a handler is set only after the peer has
\* sent WILL, WONT, DO or DONT for the option of the handler.
SignalNeedsVerb ==
    \A o \in DOMAIN proto.tn_options :
        proto.tn_options[o].negotiation => VerbSeen(o)

\* the step is a send_gmcp call of the host
GmcpSent == Dispatched /\ Message.kind = "SendGmcp"

\* the payload of the GMCP subnegotiation for the call of the step
GmcpPayload == Message.data \o (IF Message.command = 1 THEN <<32, 123, 125>> ELSE <<>>)

\* start() has run with the GMCP handler installed and the peer's DO 201
\* has been handled since
GmcpAccepted ==
    /\ started
    /\ GMCP \in DOMAIN proto.tn_options
    /\ DO \in heard[GMCP].verbs
    /\ proto.tn_options[GMCP].status.local.enabled

\* C39: once the peer has accepted GMCP, capabilities.gmcp is true and a
\* send_gmcp call enqueues one SubNegotiate for option 201 with the command
\* and the data; while capabilities.gmcp is false a send_gmcp call leaves
\* the outbound queue as it is.
GmcpAfterAccept ==
    [][GmcpSent =>
         /\ GmcpAccepted
              => /\ proto.capabilities.gmcp
                 /\ proto'.tn_out_queue
                      = Append(proto.tn_out_queue, TelnetSubNegotiate(GMCP, GmcpPayload))
         /\ ~proto.capabilities.gmcp
              => proto'.tn_out_queue = proto.tn_out_queue]_vars

(***************************************************************************)
(* The legacy frame parser of mudtelnet.py.                                *)
(***************************************************************************)
\* buffer.find(IAC SE): the 0-based index of the first IAC followed by SE
\* anywhere in the buffer, -1 when there is none
BufferFindIacSe(buffer) ==
    LET hits == {i \in 1..(Len(buffer) - 1) : buffer[i] = IAC /\ buffer[i + 1] = SE}
    IN  IF hits = {} THEN -1
        ELSE (CHOOSE i \in hits : \A j \in hits : i <= j) - 1

\* TelnetFrame.parse: the frame and the number of bytes it stands for.  A
\* DATA frame for IAC IAC carries the code IAC itself, written here as the
\* one byte it stands for.
TelnetFrameParse(buffer) ==
    IF ~(Len(buffer) > 0) THEN [consumed |-> 0, message |-> None]
    ELSE IF buffer[1] = IAC
    THEN IF Len(buffer) < 2 THEN [consumed |-> 0, message |-> None]
         ELSE IF buffer[2] = IAC
              THEN [consumed |-> 2, message |-> TelnetData(<<IAC>>)]
         ELSE IF buffer[2] \in {WILL, WONT, DO, DONT}
              THEN IF Len(buffer) > 2
                   THEN [consumed |-> 3, message |-> TelnetNegotiate(buffer[2], buffer[3])]
                   ELSE [consumed |-> 0, message |-> None]
         ELSE IF buffer[2] = SB
              THEN IF Len(buffer) >= 5
                   THEN LET idx == BufferFindIacSe(buffer)
                        IN  IF idx = -1 THEN [consumed |-> 0, message |-> None]
                            ELSE LET option == buffer[3]
                                     data == SubSeq(buffer, 4, idx)
                                 IN  [consumed |-> 5 + Len(data),
                                      message |-> TelnetSubNegotiate(option, data)]
                   ELSE [consumed |-> 0, message |-> None]
         ELSE [consumed |-> 2, message |-> TelnetCommand(buffer[2])]
    ELSE LET idx == Find(buffer, IAC) - 1
         IN  IF idx = -1
             THEN [consumed |-> Len(buffer), message |-> TelnetData(buffer)]
             ELSE LET data == Take(buffer, idx)
                  IN  [consumed |-> Len(data), message |-> TelnetData(data)]

\* C40: for every byte buffer the legacy TelnetFrame.parse and parse_telnet
\* either both return no frame, or both return a frame of the same kind with
\* the same number of consumed bytes and the same option, command or payload
\* bytes.
ParsersAgree ==
    p_pc = "parsing" => TelnetFrameParse(p_buf) = parse_telnet(p_buf)

====
